---- MODULE Spec2Model ----
(***************************************************************************)
(* Verification model of the construct-driven CFG builder                  *)
(* (2pizzaed/render-meaning-tree): the CFG container (src/cfg/cfg.py), the *)
(* property-path resolver (src/cfg/access_property.py), the construct      *)
(* model (src/cfg/abstractions.py) and the builder (src/cfg/cfg_builder.py)*)
(***************************************************************************)
EXTENDS Integers, Sequences, FiniteSets, TLC

(***************************************************************************)
(* Bounds of the model.                                                    *)
(***************************************************************************)
\* how many calls the client of SpecCFG makes
MaxCalls == 3

\* idgen = IDGen(100)
IDStart == 100

VARIABLES
    ast,      \* the JSON values of the AST, by address
    gacts,    \* the ActionSpec objects of the loaded grammar
    idc,      \* idgen._c : the next number the process-wide id generator hands out
    cfgs,     \* the CFG objects, in creation order
    node,     \* the Node objects, by id (a Node is shared by every CFG holding it)
    ret,      \* what the last operation returned (or raised)
    calls,    \* how many calls the client has made
    wr,       \* the ASTNodeWrapper objects, in creation order
    ch,       \* the dict and list objects held in the children field of wrappers
    pret,     \* the last ASTNodeWrapper.get call: its arguments and what it returned
    lookups,  \* how many lookups the client has made
    first,    \* (wrapper, path, result) of the first resolution of each path
    gtrs,     \* the transitions list of the construct find_target_... is called on
    find,     \* the running call of find_target_action_for_transition
    glob,     \* builder.collect_global_functions_only
    func_cfgs,\* builder.func_cfgs: the (name, CFG) pairs in insertion order
    built,    \* the top-level make_cfg_for_ast call: what it returned or raised
    links,    \* the connects of the worklists and the call sites, as they happened
    cspec     \* the ConstructSpec created last: the actions given and the actions it has

varsInput == <<ast, gacts, cspec>>
varsCFG == <<idc, cfgs, node, ret, calls>>
varsPath == <<wr, ch, pret, lookups, first>>
varsResolve == <<gtrs, find>>
varsBuild == <<glob, func_cfgs, built, links>>
vars == <<ast, gacts, idc, cfgs, node, ret, calls, wr, ch, pret, lookups, first,
          gtrs, find, glob, func_cfgs, built, links, cspec>>

(***************************************************************************)
(* Small helpers on sequences.                                             *)
(***************************************************************************)
Range(s) == {s[i] : i \in DOMAIN s}

Min(S) == CHOOSE x \in S : \A y \in S : x <= y

\* s without its i-th element
RemoveAt(s, i) == [j \in 1..(Len(s) - 1) |-> IF j < i THEN s[j] ELSE s[j + 1]]

(***************************************************************************)
(* Metadata (cfg.py).  None is "None"; abstract_action is an index into    *)
(* ActionSpecs and abstract_transition an index into TransitionSpecs       *)
(* (0 = None); wrapped_ast is a wrapper id (0 = None).                     *)
(***************************************************************************)
Metadata(action, transition, wrapped, primary, after_last) ==
    [assumed_value |-> "None", abstract_action |-> action,
     abstract_transition |-> transition, wrapped_ast |-> wrapped,
     primary |-> primary, is_after_last |-> after_last, call_count |-> 0]

EmptyMetadata == Metadata(0, 0, 0, "None", "None")

is_empty(m) ==
    /\ m.assumed_value = "None"
    /\ m.abstract_action = 0
    /\ m.abstract_transition = 0
    /\ m.wrapped_ast = 0
    /\ m.primary = "None"
    /\ m.is_after_last = "None"
    /\ m.call_count = 0

(***************************************************************************)
(* The construct grammar the builder is given (abstractions.py): the       *)
(* ActionSpec, TransitionSpec and ConstructSpec objects.  An               *)
(* identification is None (kind "None"), a dict (kind "dict"), an          *)
(* Identification object (kind "other"), or a falsy value that is no dict; *)
(* a property_path is the sequence of its pieces between the slashes.      *)
(* constraints are "None" or a Constraints value, effects a list           *)
(* (empty = falsy).                                                        *)
(***************************************************************************)
NoPath == [kind |-> "dict", property |-> "None", origin |-> "None",
           role_in_list |-> "None", has_path |-> FALSE, property_path |-> << >>]

\* identification=None, and the default Identification() of an ActionSpec
IdentNone == [NoPath EXCEPT !.kind = "None"]
IdentObject == [NoPath EXCEPT !.kind = "other"]

ActionSpec(construct, role, kind, generalization, identification) ==
    [construct |-> construct, role |-> role, kind |-> kind,
     generalization |-> generalization, identification |-> identification,
     effects |-> << >>]

\* the BEGIN and END actions ConstructSpec.__post_init__ puts first
Boundary(construct, b) == ActionSpec(construct, b, b, "None", IdentObject)

\* actions[a.role] = a on the dict of a construct, which is the sequence of
\* its values in insertion order: the value of a key that is present is
\* replaced where it stands, a new key is appended
actions_set(actions, a) ==
    IF \E i \in DOMAIN actions : actions[i].role = a.role
    THEN [i \in DOMAIN actions |-> IF actions[i].role = a.role THEN a ELSE actions[i]]
    ELSE Append(actions, a)

\* ConstructSpec.__post_init__: for b in (BEGIN, END): self.actions[b] = ...
post_init(name, actions) ==
    actions_set(actions_set(actions, Boundary(name, "BEGIN")), Boundary(name, "END"))

\* load_constructs for one construct: ConstructSpec(name=cname), then
\* cs.actions[role] = a for the actions of the file
RECURSIVE read_actions(_, _)
read_actions(actions, file_actions) ==
    IF file_actions = << >> THEN actions
    ELSE read_actions(actions_set(actions, Head(file_actions)), Tail(file_actions))

load_construct(name, file_actions) == read_actions(post_init(name, << >>), file_actions)

ActionSpecs ==
    << [ActionSpec("return_statement", "stmt_return", "atom", "None", IdentNone)
            EXCEPT !.effects = <<"interruption_start=return">>],
       Boundary("program", "BEGIN"),
       Boundary("program", "END"),
       ActionSpec("program", "first", "compound", "stmt",
                  [NoPath EXCEPT !.property = "body", !.role_in_list = "first_in_list"]),
       ActionSpec("program", "next", "compound", "stmt",
                  [NoPath EXCEPT !.property = "body", !.role_in_list = "next_in_list"]),
       Boundary("func_def_structure", "BEGIN"),
       Boundary("func_def_structure", "END"),
       ActionSpec("func_def_structure", "name", "atom", "None",
                  [NoPath EXCEPT !.has_path = TRUE,
                                 !.property_path = <<"declaration ", " name ", " name">>]),
       ActionSpec("func_def_structure", "body", "compound", "None", IdentNone),
       Boundary("func_call_structure", "BEGIN"),
       Boundary("func_call_structure", "END"),
       ActionSpec("func_call_structure", "name", "atom", "None",
                  [NoPath EXCEPT !.has_path = TRUE,
                                 !.property_path = <<"function ", " name">>]),
       ActionSpec("func_call_structure", "func", "compound", "None",
                  [NoPath EXCEPT !.property = "function"]),
       Boundary("while_loop", "BEGIN"),
       Boundary("while_loop", "END"),
       ActionSpec("while_loop", "cond", "atom", "None", IdentNone),
       ActionSpec("while_loop", "body", "compound", "None", IdentNone),
       Boundary("probe", "BEGIN"),
       Boundary("probe", "END"),
       ActionSpec("probe", "cond", "atom", "None", IdentNone),
       ActionSpec("probe", "body", "compound", "None", IdentNone),
       ActionSpec("probe", "alt", "compound", "None", IdentNone),
       ActionSpec("probe", "other", "compound", "None",
                  [NoPath EXCEPT !.property = "nokey"]),
       Boundary("do_while_loop", "BEGIN"),
       Boundary("do_while_loop", "END"),
       ActionSpec("do_while_loop", "cond", "atom", "None", IdentNone),
       ActionSpec("do_while_loop", "body", "compound", "None", IdentNone),
       Boundary("expr_statement", "BEGIN"),
       Boundary("expr_statement", "END"),
       ActionSpec("expr_statement", "value", "compound", "None", IdentNone),
       Boundary("if_statement", "BEGIN"),
       Boundary("if_statement", "END"),
       ActionSpec("if_statement", "first_cond", "atom", "None",
                  [NoPath EXCEPT !.has_path = TRUE,
                                 !.property_path = <<"branches ", " [0] ", " condition">>]),
       ActionSpec("if_statement", "if_branch", "compound", "None",
                  [NoPath EXCEPT !.has_path = TRUE,
                                 !.property_path = <<"branches ", " [0] ", " body">>]),
       ActionSpec("if_statement", "else_branch", "compound", "None",
                  [NoPath EXCEPT !.has_path = TRUE,
                                 !.property_path = <<"branches ", " [1] ", " body">>]) >>

TransitionSpec(construct, from_, to_, to_when_absent, constraints, effects) ==
    [construct |-> construct, from_ |-> from_, to_ |-> to_,
     to_when_absent |-> to_when_absent, constraints |-> constraints,
     effects |-> effects]

TransitionSpecs ==
    << TransitionSpec("while_loop", "BEGIN", "cond", "body", "None", << >>),
       TransitionSpec("while_loop", "cond", "body", "END", "condition_value=True", << >>),
       TransitionSpec("while_loop", "cond", "END", "None", "condition_value=False", << >>),
       TransitionSpec("while_loop", "body", "cond", "END", "None", << >>),
       TransitionSpec("func_call_structure", "BEGIN", "func", "None", "None",
                      <<"call_stack=add_frame">>),
       TransitionSpec("func_call_structure", "func", "END", "None", "None",
                      <<"call_stack=drop_frame">>),
       TransitionSpec("program", "BEGIN", "first", "END", "None", << >>),
       TransitionSpec("program", "stmt", "next", "END", "None", << >>),
       TransitionSpec("func_def_structure", "BEGIN", "body", "None", "None", << >>),
       TransitionSpec("func_def_structure", "body", "END", "None", "None", << >>),
       TransitionSpec("do_while_loop", "BEGIN", "body", "None", "None", << >>),
       TransitionSpec("do_while_loop", "body", "cond", "body", "None", << >>),
       TransitionSpec("do_while_loop", "cond", "body", "END", "condition_value=True", << >>),
       TransitionSpec("do_while_loop", "cond", "END", "None", "condition_value=False", << >>),
       TransitionSpec("expr_statement", "BEGIN", "value", "None", "None", << >>),
       TransitionSpec("if_statement", "BEGIN", "first_cond", "None", "None", << >>),
       TransitionSpec("if_statement", "first_cond", "if_branch", "None",
                      "condition_value=True", << >>),
       TransitionSpec("if_statement", "first_cond", "else_branch", "END",
                      "condition_value=False", << >>),
       TransitionSpec("if_statement", "if_branch", "END", "None", "None", << >>),
       TransitionSpec("if_statement", "else_branch", "END", "None", "None", << >>) >>

\* effects of the ActionSpec a node's metadata names
ActionEffects(action) == gacts[action].effects

(***************************************************************************)
(* The heap the CFG operations work on: H = [idc, cfgs, node].             *)
(***************************************************************************)
Heap == [idc |-> idc, cfgs |-> cfgs, node |-> node]

Ext(f, k, v) == [x \in (DOMAIN f) \cup {k} |-> IF x = k THEN v ELSE f[x]]

\* Edge.compare
compare(e, e2) ==
    /\ e.src = e2.src
    /\ e.dst = e2.dst
    /\ e.constraints = e2.constraints

\* a variant of _add_edge that appends without the duplicate test
add_edge_nodedup(edges, e) == Append(edges, e)

\* CFG._add_edge for one edge
add_edge(edges, e) ==
    IF \E i \in DOMAIN edges : compare(e, edges[i]) THEN edges ELSE Append(edges, e)

RECURSIVE add_edges(_, _)
add_edges(edges, es) ==
    IF es = << >> THEN edges ELSE add_edges(add_edge(edges, Head(es)), Tail(es))

\* dict |= : keys already present keep their position, new keys are appended
RECURSIVE dict_update(_, _)
dict_update(ns, other) ==
    IF other = << >> THEN ns
    ELSE dict_update(IF Head(other) \in Range(ns) THEN ns ELSE Append(ns, Head(other)),
                     Tail(other))

NewNode(kind, role, md) ==
    [kind |-> kind, role |-> role, metadata |-> md,
     effects |-> IF md.abstract_action # 0
                 THEN ActionEffects(md.abstract_action) ELSE << >>]

\* a variant of connect whose id is not taken from the generator
connect_same_id(H, g, src, dst, constraints, md) ==
    LET tr == md.abstract_transition
        e == [id |-> H.idc, src |-> src, dst |-> dst,
              constraints |-> IF tr # 0 /\ constraints = "None" THEN gtrs[tr].constraints
                              ELSE constraints,
              effects |-> IF tr # 0 THEN gtrs[tr].effects ELSE << >>,
              metadata |-> md]
    IN [H EXCEPT !.cfgs[g].edges = add_edge(@, e)]

\* CFG.connect on CFG g of heap H
connect(H, g, src, dst, constraints, md) ==
    LET tr == md.abstract_transition
        final_constraints ==
            IF tr # 0 /\ constraints = "None" THEN gtrs[tr].constraints
            ELSE constraints
        final_effects == IF tr # 0 THEN gtrs[tr].effects ELSE << >>
        e == [id |-> H.idc, src |-> src, dst |-> dst,
              constraints |-> final_constraints, effects |-> final_effects,
              metadata |-> md]
    IN [H EXCEPT !.idc = @ + 1,
                 !.cfgs[g].edges = add_edge(@, e)]

\* CFG.merge
merge(H, g, s) ==
    [H EXCEPT !.cfgs[g].nodes = dict_update(@, H.cfgs[s].nodes),
              !.cfgs[g].edges = add_edges(@, H.cfgs[s].edges)]

\* CFG.add_node without a subgraph
add_node_atom(H, g, kind, role, md) ==
    [H EXCEPT !.idc = @ + 1,
              !.node = Ext(@, H.idc, NewNode(kind, role, md)),
              !.cfgs[g].nodes = Append(@, H.idc)]

\* a variant of add_node whose subgraph is merged in but left unconnected
add_node_sub_unconnected(H, g, role, md, s) ==
    LET enter == H.idc
        leave == H.idc + 1
        H1 == [H EXCEPT !.idc = @ + 2,
                        !.node = Ext(Ext(@, enter, NewNode("enter__" \o H.cfgs[s].name,
                                                           role, md)),
                                     leave, NewNode("leave__" \o H.cfgs[s].name, role, md)),
                        !.cfgs[g].nodes = Append(Append(@, enter), leave)]
    IN IF s # g THEN merge(H1, g, s) ELSE H1

\* a variant of add_node that wraps the subgraph without merging it in
add_node_sub_unmerged(H, g, role, md, s) ==
    LET enter == H.idc
        leave == H.idc + 1
        H1 == [H EXCEPT !.idc = @ + 2,
                        !.node = Ext(Ext(@, enter, NewNode("enter__" \o H.cfgs[s].name,
                                                           role, md)),
                                     leave, NewNode("leave__" \o H.cfgs[s].name, role, md)),
                        !.cfgs[g].nodes = Append(Append(@, enter), leave)]
        H3 == connect(H1, g, enter, H1.cfgs[s].begin_node, "None", EmptyMetadata)
    IN connect(H3, g, H3.cfgs[s].end_node, leave, "None", EmptyMetadata)

\* CFG.add_node with subgraph s: (enter, leave) = (H.idc, H.idc + 1)
add_node_sub(H, g, role, md, s) ==
    LET enter == H.idc
        leave == H.idc + 1
        H1 == [H EXCEPT !.idc = @ + 2,
                        !.node = Ext(Ext(@, enter, NewNode("enter__" \o H.cfgs[s].name,
                                                           role, md)),
                                     leave, NewNode("leave__" \o H.cfgs[s].name, role, md)),
                        !.cfgs[g].nodes = Append(Append(@, enter), leave)]
        H2 == IF s # g THEN merge(H1, g, s) ELSE H1
        H3 == connect(H2, g, enter, H2.cfgs[s].begin_node, "None", EmptyMetadata)
    IN connect(H3, g, H3.cfgs[s].end_node, leave, "None", EmptyMetadata)

\* CFG.__init__ with _init_boundaries (no construct given)
new_cfg(H, name) ==
    LET g == Len(H.cfgs) + 1
        H1 == [H EXCEPT !.idc = @ + 1,
                        !.cfgs = Append(@, [id |-> H.idc, name |-> name,
                                            nodes |-> << >>, edges |-> << >>,
                                            begin_node |-> 0, end_node |-> 0])]
        H2 == add_node_atom(H1, g, "BEGIN", "BEGIN", EmptyMetadata)
        H3 == add_node_atom(H2, g, "END", "END", EmptyMetadata)
    IN [H3 EXCEPT !.cfgs[g].begin_node = H.idc + 1,
                  !.cfgs[g].end_node = H.idc + 2]

(***************************************************************************)
(* CFG.optimize                                                            *)
(***************************************************************************)
incoming(edges, n) == SelectSeq(edges, LAMBDA e : e.dst = n)
outgoing(edges, n) == SelectSeq(edges, LAMBDA e : e.src = n)

\* CFG._is_node_insignificant
is_node_insignificant(H, g, n) ==
    /\ H.node[n].effects = << >>
    /\ is_empty(H.node[n].metadata)
    /\ Len(incoming(H.cfgs[g].edges, n)) = 1
    /\ Len(outgoing(H.cfgs[g].edges, n)) = 1

\* CFG._is_edge_insignificant
is_edge_insignificant(e) ==
    /\ e.constraints = "None"
    /\ e.effects = << >>
    /\ is_empty(e.metadata)

\* the test of the for loop of optimize: the node is picked for removal
removable(H, g, n) ==
    /\ is_node_insignificant(H, g, n)
    /\ \/ is_edge_insignificant(incoming(H.cfgs[g].edges, n)[1])
       \/ is_edge_insignificant(outgoing(H.cfgs[g].edges, n)[1])

\* list.remove: the first element equal to e goes; raises when there is none
list_has(edges, e) == \E i \in DOMAIN edges : edges[i] = e
list_remove(edges, e) == RemoveAt(edges, Min({i \in DOMAIN edges : edges[i] = e}))

\* the edge that replaces edge_in and edge_out
spliced_edge(id, edge_in, edge_out) ==
    LET keep == IF is_edge_insignificant(edge_in) THEN edge_out ELSE edge_in
    IN [id |-> id, src |-> edge_in.src, dst |-> edge_out.dst,
        constraints |-> keep.constraints, effects |-> keep.effects,
        metadata |-> keep.metadata]

\* one iteration of the while loop of optimize that found node_to_remove = n;
\* raised: the second edges.remove raised ValueError
optimize_remove(H, g, n) ==
    LET edges == H.cfgs[g].edges
        edge_in == incoming(edges, n)[1]
        edge_out == outgoing(edges, n)[1]
        new_edge == spliced_edge(H.idc, edge_in, edge_out)
        edges1 == list_remove(edges, edge_in)
    IN IF ~list_has(edges1, edge_out)
       THEN [H |-> [H EXCEPT !.idc = @ + 1, !.cfgs[g].edges = edges1],
             raised |-> TRUE]
       ELSE [H |-> [H EXCEPT !.idc = @ + 1,
                             !.cfgs[g].edges = add_edge(list_remove(edges1, edge_out), new_edge),
                             !.cfgs[g].nodes = SelectSeq(@, LAMBDA x : x # n)],
             raised |-> FALSE]

\* the while loop of optimize, after removed_count removals
RECURSIVE optimize_loop(_, _, _)
optimize_loop(H, g, removed_count) ==
    LET ns == H.cfgs[g].nodes
        cand == {i \in DOMAIN ns : removable(H, g, ns[i])}
    IN IF cand = {} THEN [H |-> H, raised |-> FALSE, removed_count |-> removed_count]
       ELSE LET r == optimize_remove(H, g, ns[Min(cand)])
            IN IF r.raised
               THEN [H |-> r.H, raised |-> TRUE, removed_count |-> removed_count]
               ELSE optimize_loop(r.H, g, removed_count + 1)

\* a variant of optimize whose loop body runs once (if instead of while)
optimize_once(H, g) ==
    LET ns == H.cfgs[g].nodes
        cand == {i \in DOMAIN ns : removable(H, g, ns[i])}
    IN IF cand = {} THEN [H |-> H, raised |-> FALSE, removed_count |-> 0]
       ELSE LET r == optimize_remove(H, g, ns[Min(cand)])
            IN [H |-> r.H, raised |-> r.raised,
                removed_count |-> IF r.raised THEN 0 ELSE 1]

optimize(H, g) == optimize_loop(H, g, 0)

(***************************************************************************)
(* The AST and the wrapper heap (ast_wrapper.py, access_property.py).      *)
(* A raw JSON value is an address into Ast.  A wrapper is                  *)
(* [ast_node, parent, children]: parent is a wrapper id (0 = None),        *)
(* children the index in ch of its dict or list object (0 = None), and     *)
(* ast_node an address (> 0), None (0), or, for the temporary wrapper of   *)
(* the role_in_list lookups, the children list -ast_node itself (< 0).     *)
(* P = [wr, ch] is the heap the resolver works on.                         *)
(***************************************************************************)
Keys == {"type", "declaration", "name", "function", "arguments", "value", "branches",
         "cond", "condition", "body"}

\* the order in which the dicts of the AST hold the keys they have
KeyOrder == <<"type", "declaration", "name", "function", "arguments", "value",
              "branches", "cond", "condition", "body">>

NoKeys == [k \in Keys |-> 0]

\* v of a dict is the value of its 'id' key ("" when it has none)
AstDict(d) == [shape |-> "dict", d |-> d, l |-> << >>, v |-> ""]
AstNode(type, id, d) == [shape |-> "dict", d |-> [d EXCEPT !["type"] = type],
                         l |-> << >>, v |-> id]
AstList(l) == [shape |-> "list", d |-> NoKeys, l |-> l, v |-> ""]
AstStr(v) == [shape |-> "str", d |-> NoKeys, l |-> << >>, v |-> v]

\* addresses of the type tags, of the callee {"name": "g"} and of the
\* declaration {"name": {"name": "g"}}
Tag == [Program |-> 9, Definition |-> 10, Call |-> 11, Assignment |-> 12,
        Loop |-> 13, DoLoop |-> 36, Expr |-> 39, If |-> 44, Gt |-> 52,
        CalleeG |-> 18, DeclF |-> 19, DeclG |-> 20]

\* the values the ASTs are made of.  1..8 is the AST
\*   {"branches": [{"cond": "c"}, {"body": "b"}, {"cond": "c"}], "cond": "c", "body": []}
\* whose root is ast[AstRoot]; 21.. are the statements a program is made of:
\*   21  g()                      22  g()
\*   23  x = g()                  (the call is 24)
\*   25  def g(): g()             (the call is 26)
\*   27  def f(): g()             (the call is 28)
\*   29  while: x = x             (no cond; the body is 30)
\*   31  while x: def g(): x = x  (the definition is 32, its body 33)
\*   37  do: x = x  while ...     (no cond; the body is 38)
\*   40  an expression statement with the value x, 41 one without a value
\*   42  x = x                    43  x = x   (another node, the same content)
\*   45  if x > ...: x = x else: x = x
\*   55  x = g(g())               (the outer call is 56, its argument list 57,
\*                                 the inner call 58)
\*       (the branches are 47 and 48, the condition 49, the bodies 50 and 51)
\* and 34 is the program, whose body is the list 35; 53 is the program of a
\* second build on the same builder, whose body is the list 54
Ast ==
    << AstDict([NoKeys EXCEPT !["branches"] = 2, !["cond"] = 6, !["body"] = 8]),
       AstList(<<3, 4, 5>>),
       AstDict([NoKeys EXCEPT !["cond"] = 6]),
       AstDict([NoKeys EXCEPT !["body"] = 7]),
       AstDict([NoKeys EXCEPT !["cond"] = 6]),
       AstStr("c"),
       AstStr("b"),
       AstList(<< >>),
       AstStr("program_entry_point"),
       AstStr("function_definition"),
       AstStr("function_call"),
       AstStr("assignment"),
       AstStr("while_loop"),
       AstStr("f"),
       AstStr("g"),
       AstStr("x"),
       AstDict([NoKeys EXCEPT !["name"] = 14]),
       AstDict([NoKeys EXCEPT !["name"] = 15]),
       AstDict([NoKeys EXCEPT !["name"] = 17]),
       AstDict([NoKeys EXCEPT !["name"] = 18]),
       AstNode(Tag.Call, "1", [NoKeys EXCEPT !["function"] = Tag.CalleeG]),
       AstNode(Tag.Call, "2", [NoKeys EXCEPT !["function"] = Tag.CalleeG]),
       AstNode(Tag.Assignment, "3", [NoKeys EXCEPT !["value"] = 24]),
       AstNode(Tag.Call, "4", [NoKeys EXCEPT !["function"] = Tag.CalleeG]),
       AstNode(Tag.Definition, "5", [NoKeys EXCEPT !["declaration"] = Tag.DeclG, !["body"] = 26]),
       AstNode(Tag.Call, "6", [NoKeys EXCEPT !["function"] = Tag.CalleeG]),
       AstNode(Tag.Definition, "7", [NoKeys EXCEPT !["declaration"] = Tag.DeclF, !["body"] = 28]),
       AstNode(Tag.Call, "8", [NoKeys EXCEPT !["function"] = Tag.CalleeG]),
       AstNode(Tag.Loop, "9", [NoKeys EXCEPT !["body"] = 30]),
       AstNode(Tag.Assignment, "10", [NoKeys EXCEPT !["value"] = 16]),
       AstNode(Tag.Loop, "11", [NoKeys EXCEPT !["cond"] = 16, !["body"] = 32]),
       AstNode(Tag.Definition, "12", [NoKeys EXCEPT !["declaration"] = Tag.DeclG, !["body"] = 33]),
       AstNode(Tag.Assignment, "13", [NoKeys EXCEPT !["value"] = 16]),
       AstNode(Tag.Program, "0", [NoKeys EXCEPT !["body"] = 35]),
       AstList(<< >>),
       AstStr("do_while_loop"),
       AstNode(Tag.DoLoop, "14", [NoKeys EXCEPT !["body"] = 38]),
       AstNode(Tag.Assignment, "15", [NoKeys EXCEPT !["value"] = 16]),
       AstStr("expression_statement"),
       AstNode(Tag.Expr, "16", [NoKeys EXCEPT !["value"] = 16]),
       AstNode(Tag.Expr, "17", NoKeys),
       AstNode(Tag.Assignment, "18", [NoKeys EXCEPT !["value"] = 16]),
       AstNode(Tag.Assignment, "18", [NoKeys EXCEPT !["value"] = 16]),
       AstStr("if_statement"),
       AstNode(Tag.If, "19", [NoKeys EXCEPT !["branches"] = 46]),
       AstList(<<47, 48>>),
       AstDict([NoKeys EXCEPT !["condition"] = 49, !["body"] = 50]),
       AstDict([NoKeys EXCEPT !["body"] = 51]),
       AstNode(Tag.Gt, "20", NoKeys),
       AstNode(Tag.Assignment, "21", [NoKeys EXCEPT !["value"] = 16]),
       AstNode(Tag.Assignment, "22", [NoKeys EXCEPT !["value"] = 16]),
       AstStr("gt_operator"),
       AstNode(Tag.Program, "23", [NoKeys EXCEPT !["body"] = 54]),
       AstList(<< >>),
       AstNode(Tag.Assignment, "24", [NoKeys EXCEPT !["value"] = 56]),
       AstNode(Tag.Call, "25", [NoKeys EXCEPT !["function"] = Tag.CalleeG,
                                              !["arguments"] = 57]),
       AstList(<<58>>),
       AstNode(Tag.Call, "26", [NoKeys EXCEPT !["function"] = Tag.CalleeG]) >>

\* the statements a program body is drawn from
Statements == {21, 22, 23, 25, 27, 29, 31, 37, 40, 41, 42, 43, 45, 55}

\* the program {"type": "program_entry_point", "id": "0", "body": [...]}; the
\* items of its body list are the statements of the program that is built
Program == [Root |-> 34, Body |-> 35]

\* the program a client builds next on the builder it has used
Program2 == [Root |-> 53, Body |-> 54]


AstRoot == 1

\* == of two raw JSON values
RECURSIVE ContentEq(_, _)
ContentEq(a, b) ==
    \/ a = b
    \/ /\ ast[a].shape = ast[b].shape
       /\ ast[a].v = ast[b].v
       /\ Len(ast[a].l) = Len(ast[b].l)
       /\ \A i \in DOMAIN ast[a].l :
             ContentEq(ast[a].l[i], ast[b].l[i])
       /\ \A k \in Keys :
             /\ (ast[a].d[k] = 0) = (ast[b].d[k] = 0)
             /\ ast[a].d[k] # 0 => ContentEq(ast[a].d[k], ast[b].d[k])

PathHeap == [wr |-> wr, ch |-> ch]

NewList(n) == [kind |-> "list", keys |-> << >>, d |-> NoKeys, l |-> [i \in 1..n |-> 0]]
NewDict == [kind |-> "dict", keys |-> << >>, d |-> NoKeys, l |-> << >>]

\* isinstance(x, list), isinstance(x, dict), len(x), x.get(key), x[i] of an ast_node
IsList(a) == a < 0 \/ (a > 0 /\ ast[a].shape = "list")
IsDict(a) == a > 0 /\ ast[a].shape = "dict"
ListLen(P, a) == IF a < 0 THEN Len(P.ch[-a].l) ELSE Len(ast[a].l)
AstGet(a, key) == IF key \in Keys THEN ast[a].d[key] ELSE 0
\* an uncached position of a list of wrappers holds None
ItemVal(a, i) == IF a < 0 THEN 0 ELSE ast[a].l[i + 1]

\* ASTNodeWrapper(ast_node=a, parent=parent): the new wrapper is NewId(P)
NewId(P) == Len(P.wr) + 1
NewWrapper(P, a, parent) ==
    [P EXCEPT !.wr = Append(@, [ast_node |-> a, parent |-> parent, children |-> 0])]

\* w.children = <a new dict or list>
SetChildren(P, w, c) ==
    [P EXCEPT !.ch = Append(@, c), !.wr[w].children = Len(P.ch) + 1]

\* children[key] = w of the dict c, children[i] = w of the list c
DictGet(C, key) == IF key \in Keys THEN C.d[key] ELSE 0
DictSet(P, c, key, w) ==
    [P EXCEPT !.ch[c].d[key] = w,
              !.ch[c].keys = IF P.ch[c].d[key] = 0 THEN Append(@, key) ELSE @]
ListSet(P, c, i, w) == [P EXCEPT !.ch[c].l[i + 1] = w]

(***************************************************************************)
(* == of wrappers: the dataclass compares (ast_node, parent, children,     *)
(* metadata) field by field; containers compare elementwise and take       *)
(* identical objects as equal.  "E" is the RecursionError of a comparison  *)
(* that reaches the pair it is comparing.                                  *)
(***************************************************************************)
RECURSIVE WrapperEq(_, _, _, _)
RECURSIVE ItemsEq(_, _, _, _)
RECURSIVE ChildrenEq(_, _, _, _)

And3(r, s) == IF r = "T" THEN s ELSE r

\* == of two ast_node values
ValueEq(P, x, y, stk) ==
    IF x = y THEN "T"
    ELSE IF x > 0 /\ y > 0 THEN (IF ContentEq(x, y) THEN "T" ELSE "F")
    ELSE IF x < 0 /\ y < 0 THEN ChildrenEq(P, -x, -y, stk)
    ELSE IF IsList(x) /\ IsList(y) /\ ListLen(P, x) = 0 /\ ListLen(P, y) = 0 THEN "T"
    ELSE "F"

\* == of two items of a children container (a wrapper or None)
ItemEq(P, a, b, stk) ==
    IF a = b THEN "T"
    ELSE IF a = 0 \/ b = 0 THEN "F"
    ELSE WrapperEq(P, a, b, stk)

\* the fields are compared in order up to the first difference
WrapperEq(P, a, b, stk) ==
    IF a = b THEN "T"
    ELSE IF <<a, b>> \in stk THEN "E"
    ELSE And3(ValueEq(P, P.wr[a].ast_node, P.wr[b].ast_node, stk \cup {<<a, b>>}),
              And3(ItemEq(P, P.wr[a].parent, P.wr[b].parent, stk \cup {<<a, b>>}),
                   ChildrenEq(P, P.wr[a].children, P.wr[b].children,
                              stk \cup {<<a, b>>})))

\* the items xs and ys compared in order up to the first difference
ItemsEq(P, xs, ys, stk) ==
    IF xs = << >> THEN "T"
    ELSE And3(ItemEq(P, Head(xs), Head(ys), stk), ItemsEq(P, Tail(xs), Tail(ys), stk))

\* == of two dicts of wrappers: the keys of C1 in order, each looked up in C2
DictEq(P, C1, C2, stk) ==
    IF Len(C1.keys) # Len(C2.keys) THEN "F"
    ELSE ItemsEq(P, [i \in DOMAIN C1.keys |-> C1.d[C1.keys[i]]],
                    [i \in DOMAIN C1.keys |-> C2.d[C1.keys[i]]], stk)

\* == of two children fields
ChildrenEq(P, c1, c2, stk) ==
    IF c1 = c2 THEN "T"
    ELSE IF c1 = 0 \/ c2 = 0 THEN "F"
    ELSE IF P.ch[c1].kind # P.ch[c2].kind THEN "F"
    ELSE IF P.ch[c1].kind = "dict" THEN DictEq(P, P.ch[c1], P.ch[c2], stk)
    ELSE IF Len(P.ch[c1].l) # Len(P.ch[c2].l) THEN "F"
    ELSE ItemsEq(P, P.ch[c1].l, P.ch[c2].l, stk)

\* list.index(w) on a list of wrappers: the 0-based position of the first
\* item equal to w, -1 for ValueError; raised for RecursionError
RECURSIVE list_index(_, _, _, _)

list_index_at(P, items, w, i, r) ==
    IF r = "E" THEN [idx |-> -1, raised |-> TRUE]
    ELSE IF r = "T" THEN [idx |-> i - 1, raised |-> FALSE]
    ELSE list_index(P, items, w, i + 1)

list_index(P, items, w, i) ==
    IF i > Len(items) THEN [idx |-> -1, raised |-> FALSE]
    ELSE list_index_at(P, items, w, i, ItemEq(P, items[i], w, {}))

\* ast_node.index(v) on the list a: -1 for ValueError
value_index(P, a, v) ==
    LET n == ListLen(P, a)
        hit == {i \in 0..(n - 1) :
                  IF a < 0 THEN P.ch[-a].l[i + 1] = 0 /\ v = 0
                  ELSE ValueEq(P, ast[a].l[i + 1], v, {}) = "T"}
    IN IF hit = {} THEN -1 ELSE CHOOSE i \in hit : \A j \in hit : i <= j

(***************************************************************************)
(* The property_path mini-language.  A path string is the sequence of its  *)
(* pieces between the slashes; strip takes the blanks off a piece.         *)
(***************************************************************************)
Stripped ==
    ("   " :> "") @@ (" ^ " :> "^") @@ (" [next]" :> "[next]") @@ (" [1] " :> "[1]") @@
    ("declaration " :> "declaration") @@ ("function " :> "function") @@
    (" name " :> "name") @@ (" name" :> "name") @@ ("branches " :> "branches") @@
    (" [0] " :> "[0]") @@ (" condition" :> "condition") @@ (" body" :> "body")

strip(s) == IF s \in DOMAIN Stripped THEN Stripped[s] ELSE s

\* comp[1:-1].strip() of the components that start with '[' and end with ']'
BracketInner ==
    ("[next]" :> "next") @@ ("[0]" :> "0") @@ ("[1]" :> "1") @@ ("[2]" :> "2") @@
    ("[9]" :> "9") @@ ("[abc]" :> "abc") @@ ("[-1]" :> "-1")

\* int(s) of the strings with s.isdigit()
DigitValue == ("0" :> 0) @@ ("1" :> 1) @@ ("2" :> 2) @@ ("9" :> 9)

is_bracket(comp) == comp \in DOMAIN BracketInner
isdigit(s) == s \in DOMAIN DigitValue

\* [c.strip() for c in prop_path.split('/') if c.strip() != ""]
split_path(pieces) == SelectSeq([i \in DOMAIN pieces |-> strip(pieces[i])],
                                LAMBDA c : c # "")

\* what a lookup returns: the heap it leaves, the wrapper (0 = None), raised
Found(P, w) == [P |-> P, res |-> w, raised |-> FALSE]
Raised(P) == [P |-> P, res |-> 0, raised |-> TRUE]

RECURSIVE resolve_property_path_recursive(_, _, _, _)

\* the '[next]' component, once the position idx of current is known
path_next_from(P, parent, idx, remaining, prev_data) ==
    LET a == P.wr[parent].ast_node
        c == P.wr[parent].children
        nxt == idx + 1
    IN IF idx < 0 THEN Found(P, 0)
       ELSE IF nxt >= Len(P.ch[c].l) THEN Found(P, 0)
       ELSE IF P.ch[c].l[nxt + 1] # 0
       THEN resolve_property_path_recursive(P, P.ch[c].l[nxt + 1], remaining, prev_data)
       ELSE IF IsList(a) /\ nxt < ListLen(P, a)
       THEN resolve_property_path_recursive(
                ListSet(NewWrapper(P, ItemVal(a, nxt), parent), c, nxt, NewId(P)),
                NewId(P), remaining, prev_data)
       ELSE Found(P, 0)

\* the '[next]' component, once parent.children.index(current) has returned ix
path_next_at(P, current, parent, ix, remaining, prev_data) ==
    IF ix.raised THEN Raised(P)
    ELSE path_next_from(P, parent,
             IF ix.idx >= 0 THEN ix.idx
             ELSE IF IsList(P.wr[parent].ast_node)
             THEN value_index(P, P.wr[parent].ast_node, P.wr[current].ast_node)
             ELSE -1,
             remaining, prev_data)

\* the '[next]' component, once parent.children is not None
path_next_in(P, current, parent, remaining, prev_data) ==
    IF P.ch[P.wr[parent].children].kind # "list" THEN Found(P, 0)
    ELSE path_next_at(P, current, parent,
                      list_index(P, P.ch[P.wr[parent].children].l, current, 1),
                      remaining, prev_data)

\* a variant of the '[next]' component that steps from the previous-context
\* when there is one
path_next_of_previous(P, current, remaining, prev_data) ==
    LET from == IF prev_data # 0 THEN prev_data ELSE current
        parent == P.wr[from].parent
    IN IF parent = 0 THEN Found(P, 0)
       ELSE IF P.wr[parent].children # 0
       THEN path_next_in(P, from, parent, remaining, prev_data)
       ELSE IF ~IsList(P.wr[parent].ast_node) THEN Found(P, 0)
       ELSE path_next_in(
                SetChildren(P, parent, NewList(ListLen(P, P.wr[parent].ast_node))),
                from, parent, remaining, prev_data)

\* the '[next]' component
path_next(P, current, remaining, prev_data) ==
    LET parent == P.wr[current].parent
    IN IF parent = 0 THEN Found(P, 0)
       ELSE IF P.wr[parent].children # 0
       THEN path_next_in(P, current, parent, remaining, prev_data)
       ELSE IF ~IsList(P.wr[parent].ast_node) THEN Found(P, 0)
       ELSE path_next_in(
                SetChildren(P, parent, NewList(ListLen(P, P.wr[parent].ast_node))),
                current, parent, remaining, prev_data)

\* the '[N]' component
path_index(P, current, comp, remaining, prev_data) ==
    LET inner == BracketInner[comp]
        a == P.wr[current].ast_node
    IN IF ~isdigit(inner) THEN Found(P, 0)
       ELSE IF ~(IsList(a) /\ DigitValue[inner] < ListLen(P, a)) THEN Found(P, 0)
       ELSE
    LET idx == DigitValue[inner]
        P1 == IF P.wr[current].children = 0
              THEN SetChildren(P, current, NewList(ListLen(P, a))) ELSE P
        c == P1.wr[current].children
        C == P1.ch[c]
    IN IF C.kind # "list" THEN Found(P1, 0)
       ELSE IF idx >= Len(C.l) THEN Raised(P1)
       ELSE IF C.l[idx + 1] # 0
       THEN resolve_property_path_recursive(P1, C.l[idx + 1], remaining, prev_data)
       ELSE LET w == NewId(P1)
                P2 == ListSet(NewWrapper(P1, ItemVal(a, idx), current), c, idx, w)
            IN resolve_property_path_recursive(P2, w, remaining, prev_data)

\* a property name component
path_key(P, current, key, remaining, prev_data) ==
    LET a == P.wr[current].ast_node
    IN IF ~IsDict(a) THEN Found(P, 0)
       ELSE
    LET P1 == IF P.wr[current].children = 0
              THEN SetChildren(P, current, NewDict) ELSE P
        c == P1.wr[current].children
        C == P1.ch[c]
        raw == AstGet(a, key)
        w == NewId(P1)
        P2 == NewWrapper(P1, raw, current)
    IN IF C.kind = "dict" /\ DictGet(C, key) # 0
       THEN resolve_property_path_recursive(P1, DictGet(C, key), remaining, prev_data)
       ELSE IF raw = 0 THEN Found(P1, 0)
       ELSE resolve_property_path_recursive(
                IF C.kind = "dict" THEN DictSet(P2, c, key, w) ELSE P2,
                w, remaining, prev_data)

resolve_property_path_recursive(P, current, components, prev_data) ==
    IF components = << >> THEN Found(P, current)
    ELSE IF current = 0 THEN Found(P, 0)
    ELSE LET comp == Head(components)
             remaining == Tail(components)
         IN IF comp = "^"
            THEN resolve_property_path_recursive(P, P.wr[current].parent, remaining,
                     IF prev_data = 0 THEN current ELSE prev_data)
            ELSE IF comp = "[next]" THEN path_next(P, current, remaining, prev_data)
            ELSE IF is_bracket(comp)
            THEN path_index(P, current, comp, remaining, prev_data)
            ELSE path_key(P, current, comp, remaining, prev_data)

(***************************************************************************)
(* resolve_role_in_list_recursive and resolve (ASTNodeWrapper.get).        *)
(* An identification is [kind, property, origin, role_in_list, has_path,   *)
(* property_path]: kind "None", "empty" ({}), "falsy" (a falsy value that  *)
(* is no dict), "other" (a truthy value that is no dict) or "dict".        *)
(***************************************************************************)
\* target_wrapper.children[i] (0-based), wrapped on demand
list_item(P, target_wrapper, i) ==
    LET a == P.wr[target_wrapper].ast_node
        c == P.wr[target_wrapper].children
    IN IF P.ch[c].l[i + 1] # 0 THEN Found(P, P.ch[c].l[i + 1])
       ELSE IF i < ListLen(P, a)
       THEN Found(ListSet(NewWrapper(P, ItemVal(a, i), target_wrapper), c, i, NewId(P)),
                  NewId(P))
       ELSE Found(P, 0)

\* next_in_list, once target_wrapper.children.index(prev_data) has returned ix
next_in_list_at(P, target_wrapper, prev_data, ix) ==
    LET idx == IF ix.idx >= 0 THEN ix.idx
               ELSE value_index(P, P.wr[target_wrapper].ast_node,
                                P.wr[prev_data].ast_node)
    IN IF ix.raised THEN Raised(P)
       ELSE IF idx < 0 THEN Found(P, 0)
       ELSE IF idx + 1 >= Len(P.ch[P.wr[target_wrapper].children].l) THEN Found(P, 0)
       ELSE list_item(P, target_wrapper, idx + 1)

\* resolve_role_in_list_recursive, once target_wrapper.children is not None
role_in_list_in(P, target_wrapper, role_in_list, prev_data) ==
    LET C == P.ch[P.wr[target_wrapper].children]
    IN IF C.kind # "list" THEN Found(P, 0)
       ELSE IF role_in_list = "first_in_list"
       THEN (IF Len(C.l) = 0 THEN Raised(P) ELSE list_item(P, target_wrapper, 0))
       ELSE next_in_list_at(P, target_wrapper, prev_data,
                            list_index(P, C.l, prev_data, 1))

resolve_role_in_list_recursive(P, target_wrapper, role_in_list, prev_data) ==
    LET a == P.wr[target_wrapper].ast_node
    IN IF role_in_list = "first_in_list" /\ ListLen(P, a) = 0 THEN Found(P, 0)
       ELSE IF role_in_list = "next_in_list" /\ prev_data = 0 THEN Found(P, 0)
       ELSE IF role_in_list \notin {"first_in_list", "next_in_list"} THEN Found(P, 0)
       ELSE role_in_list_in(
                IF P.wr[target_wrapper].children = 0
                THEN SetChildren(P, target_wrapper, NewList(ListLen(P, a))) ELSE P,
                target_wrapper, role_in_list, prev_data)

NoPRet == [op |-> "none", self |-> 0, role |-> "None", identification |-> NoPath,
           previous |-> 0, res |-> 0, raised |-> FALSE]

\* if prop_path: (a string is falsy when it is empty)
path_given(identification) ==
    identification.has_path /\ identification.property_path # <<"">>

\* ensure_children_structure
ensure_children_structure(P, self) ==
    IF P.wr[self].children # 0 THEN P
    ELSE IF IsList(P.wr[self].ast_node)
    THEN SetChildren(P, self, NewList(ListLen(P, P.wr[self].ast_node)))
    ELSE SetChildren(P, self, NewDict)

\* while len(pc) < len(parent_wrapper.ast_node): pc.append(None)
pad(l, n) == [i \in 1..(IF Len(l) < n THEN n ELSE Len(l)) |->
                  IF i <= Len(l) THEN l[i] ELSE 0]

\* 1) the lookup by role alone; role "None" is the None of a missing property
resolve_by_role(P, self, role) ==
    LET P1 == ensure_children_structure(P, self)
        a == P1.wr[self].ast_node
        c == P1.wr[self].children
        C == P1.ch[c]
        w == NewId(P1)
    IN IF C.kind = "dict"
       THEN IF DictGet(C, role) # 0 THEN Found(P1, DictGet(C, role))
            ELSE IF IsDict(a) /\ AstGet(a, role) # 0
            THEN Found(DictSet(NewWrapper(P1, AstGet(a, role), self), c, role, w), w)
            ELSE Found(P1, 0)
       ELSE IF role = "None" THEN Raised(P1)
       ELSE IF ~is_bracket(strip(role)) THEN Found(P1, 0)
       ELSE IF ~isdigit(BracketInner[strip(role)]) THEN Found(P1, 0)
       ELSE
           LET idx == DigitValue[BracketInner[strip(role)]]
           IN IF idx >= Len(C.l) THEN Found(P1, 0)
              ELSE IF C.l[idx + 1] # 0 THEN Found(P1, C.l[idx + 1])
              ELSE IF ~(IsList(a) /\ idx < ListLen(P1, a)) THEN Found(P1, 0)
              ELSE IF ItemVal(a, idx) = 0 THEN Found(P1, 0)
              ELSE \* make_wrapper_for binds w to the first position whose value
                   \* equals the wrapped one, then the caller to position idx
                  LET P2 == NewWrapper(P1, ItemVal(a, idx), self)
                      at == value_index(P1, a, ItemVal(a, idx))
                      P3 == [P2 EXCEPT !.ch[c].l = pad(@, ListLen(P1, a))]
                  IN Found(ListSet(ListSet(P3, c, at, w), c, idx, w), w)

\* 3) role_in_list: the list is looked for in base (self or its parent)
resolve_in_list(P, base, identification, previous_action_data) ==
    IF base = 0 THEN Found(P, 0)
    ELSE
    LET a == P.wr[base].ast_node
        c == P.wr[base].children
        target_list ==
            IF identification.property # "None" /\ IsDict(a)
            THEN AstGet(a, identification.property)
            ELSE IF c # 0 /\ P.ch[c].kind = "list" THEN -c
            ELSE 0
    IN IF ~IsList(target_list) THEN Found(P, 0)
       ELSE
    LET P1 == IF c = 0 \/ P.ch[c].kind # "list"
              THEN SetChildren(P, base, NewList(ListLen(P, target_list))) ELSE P
        temp_wrapper == NewId(P1)
        P2 == [NewWrapper(P1, target_list, base)
                   EXCEPT !.wr[temp_wrapper].children = P1.wr[base].children]
    IN resolve_role_in_list_recursive(P2, temp_wrapper, identification.role_in_list,
                                      previous_action_data)

\* 4) the lookup of identification['property'] in base (self or its parent)
resolve_property(P, base, prop) ==
    IF base = 0 THEN Found(P, 0)
    ELSE
    LET P1 == IF P.wr[base].children = 0 THEN SetChildren(P, base, NewDict) ELSE P
        a == P1.wr[base].ast_node
        c == P1.wr[base].children
        C == P1.ch[c]
        w == NewId(P1)
        P2 == NewWrapper(P1, AstGet(a, prop), base)
    IN IF C.kind = "dict" /\ DictGet(C, prop) # 0 THEN Found(P1, DictGet(C, prop))
       ELSE IF IsDict(a) /\ AstGet(a, prop) # 0
       THEN Found(IF C.kind = "dict" THEN DictSet(P2, c, prop, w) ELSE P2, w)
       ELSE Found(P1, 0)

\* resolve for an identification whose origin is not 'previous'
resolve_here(P, self, role, identification, previous_action_data) ==
    IF identification.kind \in {"None", "empty", "falsy"}
    THEN resolve_by_role(P, self, role)
    ELSE IF identification.kind # "dict" THEN Found(P, 0)
    ELSE IF path_given(identification)
    THEN LET comps == split_path(identification.property_path)
         IN IF comps = << >> THEN Found(P, 0)
            ELSE resolve_property_path_recursive(P, self, comps, previous_action_data)
    ELSE IF identification.role_in_list # "None"
    THEN resolve_in_list(P, IF identification.origin = "parent"
                            THEN P.wr[self].parent ELSE self,
                         identification, previous_action_data)
    ELSE IF identification.property # "None"
    THEN resolve_property(P, IF identification.origin = "parent"
                             THEN P.wr[self].parent ELSE self,
                          identification.property)
    ELSE Found(P, 0)

\* access_property.resolve
resolve(P, self, role, identification, previous_action_data) ==
    IF identification.kind = "dict" /\ identification.origin = "previous"
    THEN IF previous_action_data = 0 THEN Found(P, 0)
         ELSE IF path_given(identification)
         THEN resolve_here(P, previous_action_data, identification.property,
                  [NoPath EXCEPT !.has_path = TRUE,
                                 !.property_path = identification.property_path], 0)
         ELSE resolve_by_role(P, previous_action_data, identification.property)
    ELSE resolve_here(P, self, role, identification, previous_action_data)

(***************************************************************************)
(* ConstructSpec (abstractions.py).  T is the list of the TransitionSpec   *)
(* objects of the grammar; a transition is named by its position in T, an  *)
(* action by its position in ActionSpecs.                                  *)
(***************************************************************************)
\* cspec.actions.get(role): 0 when the construct has no such action
actions_get(construct, role) ==
    LET hit == {a \in DOMAIN gacts :
                  gacts[a].construct = construct /\ gacts[a].role = role}
    IN IF hit = {} THEN 0 ELSE Min(hit)

\* ActionSpec.find_node_data
find_node_data(P, action, wrapped_ast, previous_action_data) ==
    IF gacts[action].role = "END" THEN Found(P, wrapped_ast)
    ELSE resolve(P, wrapped_ast, gacts[action].role,
                 gacts[action].identification, previous_action_data)

\* ConstructSpec.find_transitions_from_action
find_transitions_from_action(T, action) ==
    SelectSeq([i \in DOMAIN T |-> i],
              LAMBDA i : /\ T[i].construct = gacts[action].construct
                         /\ T[i].from_ \in {gacts[action].role,
                                            gacts[action].generalization})

\* what one round of the while loop of find_target_action_for_transition
\* leaves: status "returned" (action, data, primary), "raised" (exc),
\* "continue" (with transition next), or "absent" inside the for loop
NoTarget(P, status, exc) ==
    [P |-> P, status |-> status, exc |-> exc, action |-> 0, data |-> 0,
     primary |-> FALSE, next |-> 0]

\* the end of the for loop body: r is what find_node_data returned
find_target_found(to_, target_role, action, r) ==
    IF r.raised THEN NoTarget(r.P, "raised", "Error")
    ELSE IF r.res = 0 THEN NoTarget(r.P, "absent", "None")
    ELSE [NoTarget(r.P, "returned", "None")
              EXCEPT !.action = action, !.data = r.res, !.primary = (target_role = to_)]

\* the for loop body for one target_role; self.actions[target_role] raises
\* KeyError for a role the construct has no action for
find_target_role(T, P, tr, target_role, wrapped_ast, previous_wrapped_ast) ==
    IF target_role = "None" THEN NoTarget(P, "absent", "None")
    ELSE IF actions_get(T[tr].construct, target_role) = 0
    THEN NoTarget(P, "raised", "KeyError")
    ELSE find_target_found(T[tr].to_, target_role,
                           actions_get(T[tr].construct, target_role),
                           find_node_data(P, actions_get(T[tr].construct, target_role),
                                          wrapped_ast, previous_wrapped_ast))

\* after the for loop: the first transition out of the primary target
find_target_further(T, P, tr) ==
    IF actions_get(T[tr].construct, T[tr].to_) = 0 THEN NoTarget(P, "raised", "KeyError")
    ELSE LET trs == find_transitions_from_action(
                        T, actions_get(T[tr].construct, T[tr].to_))
         IN IF trs = << >> THEN NoTarget(P, "raised", "ValueError")
            ELSE [NoTarget(P, "continue", "None") EXCEPT !.next = trs[1]]

find_target_fallback(T, tr, r) ==
    IF r.status # "absent" THEN r ELSE find_target_further(T, r.P, tr)

find_target_primary(T, tr, wrapped_ast, previous_wrapped_ast, r) ==
    IF r.status # "absent" THEN r
    ELSE find_target_fallback(T, tr,
             find_target_role(T, r.P, tr, T[tr].to_when_absent,
                              wrapped_ast, previous_wrapped_ast))

\* one round of the while loop, for the transition tr
find_target_round(T, P, tr, wrapped_ast, previous_wrapped_ast) ==
    find_target_primary(T, tr, wrapped_ast, previous_wrapped_ast,
        find_target_role(T, P, tr, T[tr].to_, wrapped_ast, previous_wrapped_ast))

\* ConstructSpec.find_target_action_for_transition: the rounds of the loop
RECURSIVE find_target_loop(_, _, _, _)
find_target_loop(T, wrapped_ast, previous_wrapped_ast, r) ==
    IF r.status # "continue" THEN r
    ELSE find_target_loop(T, wrapped_ast, previous_wrapped_ast,
             find_target_round(T, r.P, r.next, wrapped_ast, previous_wrapped_ast))

find_target_action_for_transition(T, P, tr, wrapped_ast, previous_wrapped_ast) ==
    find_target_loop(T, wrapped_ast, previous_wrapped_ast,
                     [NoTarget(P, "continue", "None") EXCEPT !.next = tr])

(***************************************************************************)
(* CFGBuilder (cfg_builder.py).  The builder works on the heap             *)
(* B = [idc, cfgs, node, wr, ch, func_cfgs, links, exc, ret, name]:        *)
(* func_cfgs is the dict of the registered functions as (name, cfg) pairs  *)
(* in insertion order, exc the exception that is propagating ("None" when  *)
(* there is none), ret the CFG a call returned and name the function name  *)
(* a call returned ("" = None).  links is the log of what was linked:      *)
(* the call sites by _handle_function_call and the connects of the         *)
(* worklists.  A construct is named by its position in Constructs.         *)
(***************************************************************************)
\* the ConstructSpec objects: name, the AST type tag they are bound to, kind
Constructs ==
    << [name |-> "program", ast_node |-> "program_entry_point", kind |-> {"compound"}],
       [name |-> "func_def_structure", ast_node |-> "function_definition",
        kind |-> {"compound"}],
       [name |-> "func_call_structure", ast_node |-> "function_call",
        kind |-> {"compound"}],
       [name |-> "while_loop", ast_node |-> "while_loop", kind |-> {"compound"}],
       [name |-> "do_while_loop", ast_node |-> "do_while_loop", kind |-> {"compound"}],
       [name |-> "expr_statement", ast_node |-> "expression_statement",
        kind |-> {"compound"}],
       [name |-> "if_statement", ast_node |-> "if_statement", kind |-> {"compound"}] >>

FUNC_DEF_CONSTRUCT == "func_def_structure"
FUNC_CALL_CONSTRUCT == "func_call_structure"

\* construct.name, construct.kind.has(k), construct.id2action.get(role)
construct_name(construct) == Constructs[construct].name
kind_has(construct, k) == k \in Constructs[construct].kind
id2action(construct, role) == actions_get(construct_name(construct), role)

Raise(B, e) == [B EXCEPT !.exc = e]
Return(B, g) == [B EXCEPT !.ret = g]

\* v.get("type") of a raw value: the tag, "None" when there is none
type_tag(a) ==
    IF IsDict(a) /\ AstGet(a, "type") # 0 /\ ast[AstGet(a, "type")].shape = "str"
    THEN ast[AstGet(a, "type")].v ELSE "None"

\* a name read from the AST: the string, "" for None and for a falsy value
name_value(v) == IF v # 0 /\ ast[v].shape = "str" THEN ast[v].v ELSE ""

\* the values of a dict in key order, the items of a list
ast_children(a) ==
    IF IsDict(a)
    THEN SelectSeq([i \in DOMAIN KeyOrder |-> ast[a].d[KeyOrder[i]]], LAMBDA v : v # 0)
    ELSE IF a > 0 /\ ast[a].shape = "list" THEN ast[a].l
    ELSE << >>

\* json_search.search_dfs: the nodes of the given type, the node itself
\* first, then what its children hold, left to right
RECURSIVE search_dfs_all(_, _)
search_dfs(a, type) ==
    (IF type_tag(a) = type THEN <<a>> ELSE << >>) \o search_dfs_all(ast_children(a), type)

search_dfs_all(as, type) ==
    IF as = << >> THEN << >>
    ELSE search_dfs(Head(as), type) \o search_dfs_all(Tail(as), type)

\* json_search.search_bfs: the while loop over the queue
RECURSIVE search_bfs_queue(_, _, _)
search_bfs_queue(queue, type, results) ==
    IF queue = << >> THEN results
    ELSE search_bfs_queue(Tail(queue) \o ast_children(Head(queue)), type,
                          IF type_tag(Head(queue)) = type
                          THEN Append(results, Head(queue)) ELSE results)

search_bfs(a, type) == search_bfs_queue(<<a>>, type, << >>)

\* CFGBuilder._create_simple_cfg
create_simple_cfg(B, name) ==
    LET B1 == new_cfg(B, name)
        g == Len(B1.cfgs)
    IN Return(connect(B1, g, B1.cfgs[g].begin_node, B1.cfgs[g].end_node,
                      "None", EmptyMetadata), g)

\* CFGBuilder.find_construct_for_astnode: 0 when no construct is bound
find_construct_for_astnode(a) ==
    LET hit == {c \in DOMAIN Constructs : Constructs[c].ast_node = type_tag(a)}
    IN IF ~IsDict(a) \/ hit = {} THEN 0 ELSE Min(hit)

\* a variant of the lookup that finds no name
func_cfgs_get_missing(B, func_name) == 0

\* self.func_cfgs.get(func_name): 0 when the name is not registered
func_cfgs_get(B, func_name) ==
    LET hit == {i \in DOMAIN B.func_cfgs : B.func_cfgs[i].name = func_name}
    IN IF hit = {} THEN 0 ELSE B.func_cfgs[Min(hit)].cfg

\* the end of _extract_function_name: r is what find_node_data returned
function_name_of(r) ==
    IF r.raised THEN Raise(r.P, "Error")
    ELSE IF r.res = 0 THEN [r.P EXCEPT !.name = ""]
    ELSE IF IsDict(r.P.wr[r.res].ast_node)
    THEN [r.P EXCEPT !.name = name_value(AstGet(r.P.wr[r.res].ast_node, "name"))]
    ELSE [r.P EXCEPT !.name = name_value(r.P.wr[r.res].ast_node)]

\* CFGBuilder._extract_function_name: B.name is the name
extract_function_name(B, wrapped_ast, construct) ==
    IF id2action(construct, "name") = 0 THEN [B EXCEPT !.name = ""]
    ELSE function_name_of(find_node_data(B, id2action(construct, "name"), wrapped_ast, 0))

\* CFGBuilder._extract_function_name_from_node
extract_function_name_from_node(func_node) ==
    LET declaration == AstGet(func_node, "declaration")
    IN IF ~IsDict(declaration) THEN ""
       ELSE IF ~IsDict(AstGet(declaration, "name")) THEN ""
       ELSE name_value(AstGet(AstGet(declaration, "name"), "name"))

\* CFGBuilder._extract_function_name_from_call_node
extract_function_name_from_call_node(call_node) ==
    IF ~IsDict(AstGet(call_node, "function")) THEN ""
    ELSE name_value(AstGet(AstGet(call_node, "function"), "name"))

RECURSIVE make_cfg_for_ast(_, _)
RECURSIVE make_cfg_for_construct(_, _, _, _)

\* cfg.begin_node.metadata.abstract_action = construct.id2action[BEGIN], and
\* the three assignments after it
set_boundaries(B, g, construct, wrapped_ast) ==
    [B EXCEPT !.node[B.cfgs[g].begin_node].metadata.abstract_action =
                  id2action(construct, "BEGIN"),
              !.node[B.cfgs[g].begin_node].metadata.wrapped_ast = wrapped_ast,
              !.node[B.cfgs[g].end_node].metadata.abstract_action =
                  id2action(construct, "END"),
              !.node[B.cfgs[g].end_node].metadata.wrapped_ast = wrapped_ast]

\* _handle_function_call, the end: func_cfg.begin_node.metadata.call_count += 1
\* (and the call site is logged as linked)
count_function_call(B, wrapped_ast, func_name, func_cfg, call_cfg, enter) ==
    [B EXCEPT !.node[B.cfgs[func_cfg].begin_node].metadata.call_count = @ + 1,
              !.links = Append(@, [kind |-> "call", site |-> B.wr[wrapped_ast].ast_node,
                                   callee |-> func_name, func_cfg |-> func_cfg,
                                   call_cfg |-> call_cfg, enter |-> enter,
                                   leave |-> enter + 1]),
              !.ret = call_cfg]

\* _handle_function_call: the edges BEGIN -> func and func -> END along the
\* first transitions from BEGIN and from func
connect_function_call(B, wrapped_ast, func_name, func_cfg, call_cfg, enter, from_begin, from_func) ==
    IF from_begin = << >> THEN Raise(B, "IndexError")
    ELSE IF from_func = << >>
    THEN Raise(connect(B, call_cfg, B.cfgs[call_cfg].begin_node, enter, "None",
                       Metadata(0, from_begin[1], 0, "None", "None")), "IndexError")
    ELSE count_function_call(
             connect(connect(B, call_cfg, B.cfgs[call_cfg].begin_node, enter, "None",
                             Metadata(0, from_begin[1], 0, "None", "None")),
                     call_cfg, enter + 1, B.cfgs[call_cfg].end_node, "None",
                     Metadata(0, from_func[1], 0, "None", "None")),
             wrapped_ast, func_name, func_cfg, call_cfg, enter)

\* _handle_function_call: func_cfg is embedded in the call CFG B holds
embed_function(B, construct, wrapped_ast, func_name, func_cfg, call_cfg) ==
    IF id2action(construct, "func") = 0 THEN Raise(B, "KeyError")
    ELSE connect_function_call(
             add_node_sub(B, call_cfg, "func",
                          Metadata(id2action(construct, "func"), 0, wrapped_ast,
                                   "True", "None"),
                          func_cfg),
             wrapped_ast, func_name, func_cfg, call_cfg, B.idc,
             find_transitions_from_action(gtrs, id2action(construct, "BEGIN")),
             find_transitions_from_action(gtrs, id2action(construct, "func")))

\* _handle_function_call for a registered callee: call_cfg = CFG("function_call")
link_function_call(B, construct, wrapped_ast, func_name, func_cfg) ==
    embed_function(set_boundaries(new_cfg(B, "function_call"), Len(B.cfgs) + 1,
                                  construct, wrapped_ast),
                   construct, wrapped_ast, func_name, func_cfg, Len(B.cfgs) + 1)

\* _handle_function_call once the name is extracted (B.name)
call_function_named(B, construct, wrapped_ast) ==
    IF B.exc # "None" THEN B
    ELSE IF B.name = "" \/ func_cfgs_get(B, B.name) = 0
    THEN make_cfg_for_construct(B, construct, wrapped_ast, 0)
    ELSE link_function_call(B, construct, wrapped_ast, B.name, func_cfgs_get(B, B.name))

\* CFGBuilder._handle_function_call
handle_function_call(B, construct, wrapped_ast) ==
    call_function_named(extract_function_name(B, wrapped_ast, construct),
                        construct, wrapped_ast)

RECURSIVE process_function_calls(_, _, _, _)

\* _process_function_calls_in_cfg, the for loop body from `if call_cfg:` on:
\* B is what _handle_function_call left
chain_function_call(B, func_cfg, base_cfg, function_calls, current_node) ==
    IF B.exc # "None" THEN B
    ELSE process_function_calls(
             connect([B EXCEPT !.node[B.cfgs[func_cfg].begin_node].metadata.call_count
                                   = @ + 1],
                     base_cfg, current_node, B.cfgs[B.ret].begin_node,
                     "None", EmptyMetadata),
             base_cfg, function_calls, B.cfgs[B.ret].end_node)

\* _process_function_calls_in_cfg: the for loop, then the last connect
process_function_calls(B, base_cfg, function_calls, current_node) ==
    IF B.exc # "None" THEN B
    ELSE IF function_calls = << >>
    THEN Return(connect(B, base_cfg, current_node, B.cfgs[base_cfg].end_node,
                        "None", EmptyMetadata), base_cfg)
    ELSE
    LET call_node == Head(function_calls)
        func_name == extract_function_name_from_call_node(call_node)
        construct == find_construct_for_astnode(call_node)
    IN IF func_name = "" \/ func_cfgs_get(B, func_name) = 0
       THEN process_function_calls(B, base_cfg, Tail(function_calls), current_node)
       ELSE IF construct = 0 \/ construct_name(construct) # FUNC_CALL_CONSTRUCT
       THEN Raise(NewWrapper(B, call_node, 0), "ValueError")
       ELSE chain_function_call(
                handle_function_call(NewWrapper(B, call_node, 0), construct, NewId(B)),
                func_cfgs_get(B, func_name), base_cfg, Tail(function_calls),
                current_node)

\* CFGBuilder._process_function_calls_in_cfg
process_function_calls_in_cfg(B, base_cfg, function_calls) ==
    IF function_calls = << >> THEN Return(B, base_cfg)
    ELSE process_function_calls(B, base_cfg, function_calls, B.cfgs[base_cfg].begin_node)

\* existing.role == target_action.role and existing.metadata.wrapped_ast and
\* existing.metadata.wrapped_ast.ast_node == next_wrapped_ast.ast_node
is_existing(B, existing, role, next_wrapped_ast) ==
    IF B.node[existing].role = role /\ B.node[existing].metadata.wrapped_ast # 0
    THEN ValueEq(B, B.wr[B.node[existing].metadata.wrapped_ast].ast_node,
                 B.wr[next_wrapped_ast].ast_node, {})
    ELSE "F"

\* the first node of cfg with the role and the data of the target: 0 when
\* there is none, -1 when the comparison raises
existing_node(B, cfg, role, next_wrapped_ast) ==
    LET ns == B.cfgs[cfg].nodes
        hit == {i \in DOMAIN ns : is_existing(B, ns[i], role, next_wrapped_ast) # "F"}
    IN IF hit = {} THEN 0
       ELSE IF is_existing(B, ns[Min(hit)], role, next_wrapped_ast) = "E" THEN -1
       ELSE ns[Min(hit)]

\* whether find_node_data returned data
has_data(r) == ~r.raised /\ r.res # 0

\* whether action.find_node_data gives data for the role (logged with a
\* connect of the worklist)
data_resolves(B, construct, role, wrapped_ast, previous) ==
    /\ role # "None"
    /\ id2action(construct, role) # 0
    /\ has_data(find_node_data(B, id2action(construct, role), wrapped_ast, previous))

\* what the body of the for loop of make_cfg_for_compound leaves
Step(B, pool, processed) == [B |-> B, pool |-> pool, processed |-> processed]

\* a variant of the for loop body that does not mark the enter node processed
connect_target_unmarked(B, cfg, node_, tr, t, enter, leave, resolves, pool, processed) ==
    Step([connect(B, cfg, node_, enter, "None",
                  Metadata(0, tr, 0, "None", IF t.primary THEN "False" ELSE "True"))
              EXCEPT !.links = Append(@, [kind |-> "worklist", cfg |-> cfg, tr |-> tr,
                                          src |-> node_, dst |-> enter,
                                          role |-> gacts[t.action].role,
                                          primary |-> t.primary,
                                          created |-> enter # leave,
                                          data |-> B.wr[t.data].ast_node,
                                          resolves |-> resolves])],
         IF leave \notin processed THEN Append(pool, leave) ELSE pool,
         processed)

\* the for loop body from cfg.connect on: node_pair is (enter, leave)
connect_target(B, cfg, node_, tr, t, enter, leave, resolves, pool, processed) ==
    Step([connect(B, cfg, node_, enter, "None",
                  Metadata(0, tr, 0, "None", IF t.primary THEN "False" ELSE "True"))
              EXCEPT !.links = Append(@, [kind |-> "worklist", cfg |-> cfg, tr |-> tr,
                                          src |-> node_, dst |-> enter,
                                          role |-> gacts[t.action].role,
                                          primary |-> t.primary,
                                          created |-> enter # leave,
                                          data |-> B.wr[t.data].ast_node,
                                          resolves |-> resolves])],
         IF leave \notin processed THEN Append(pool, leave) ELSE pool,
         IF enter # leave THEN processed \cup {enter} ELSE processed)

\* a variant of the for loop body that flags every new node primary
add_target_primary(B, cfg, node_, tr, t, resolves, pool, processed) ==
    IF B.exc # "None" THEN Step(B, pool, processed)
    ELSE connect_target(
             add_node_sub(B, cfg, gacts[t.action].role,
                          Metadata(t.action, 0, t.data, "True", "None"), B.ret),
             cfg, node_, tr, t, B.idc, B.idc + 1, resolves, pool, processed)

\* the for loop body for a new node: B is what make_cfg_for_ast left
add_target(B, cfg, node_, tr, t, resolves, pool, processed) ==
    IF B.exc # "None" THEN Step(B, pool, processed)
    ELSE connect_target(
             add_node_sub(B, cfg, gacts[t.action].role,
                          Metadata(t.action, 0, t.data,
                                   IF t.primary THEN "True" ELSE "False", "None"),
                          B.ret),
             cfg, node_, tr, t, B.idc, B.idc + 1, resolves, pool, processed)

\* the for loop body after the search for an existing node
reuse_or_add_target(B, cfg, node_, tr, t, found, resolves, pool, processed) ==
    IF found = -1 THEN Step(Raise(B, "Error"), pool, processed)
    ELSE IF found # 0
    THEN connect_target(B, cfg, node_, tr, t, found, found, resolves, pool, processed)
    ELSE add_target(make_cfg_for_ast(B, t.data), cfg, node_, tr, t, resolves,
                    pool, processed)

\* find_target_action_for_transition raised ValueError: the transition whose
\* chain is exhausted is logged
log_unresolved(B, cfg, node_, tr) ==
    [B EXCEPT !.links = Append(@, [kind |-> "unresolved", cfg |-> cfg, tr |-> tr,
                                   src |-> node_])]

\* a variant of the except clause that gets to its continue statement
except_value_error_continue(B, exc, cfg, node_, tr) ==
    IF exc = "ValueError" THEN log_unresolved(B, cfg, node_, tr) ELSE Raise(B, exc)

\* except ValueError as e: the first print of the clause formats tr.to, an
\* attribute a TransitionSpec does not have (it has to_), so the clause
\* raises AttributeError; any other exception propagates
except_value_error(B, exc, cfg, node_, tr) ==
    IF exc = "ValueError" THEN Raise(log_unresolved(B, cfg, node_, tr), "AttributeError")
    ELSE Raise(B, exc)

\* the for loop body once find_target_action_for_transition is back with t
step_to_target(t, cfg, node_, tr, resolves, pool, processed) ==
    IF t.status = "raised"
    THEN Step(except_value_error(t.P, t.exc, cfg, node_, tr), pool, processed)
    ELSE reuse_or_add_target(t.P, cfg, node_, tr, t,
                             existing_node(t.P, cfg, gacts[t.action].role, t.data),
                             resolves, pool, processed)

RECURSIVE for_transitions(_, _, _, _, _, _, _, _)

\* the next round of the for loop, after a round that left r
next_transition(r, construct, wrapped_ast, cfg, node_, trs) ==
    for_transitions(r.B, construct, wrapped_ast, cfg, node_, trs, r.pool, r.processed)

\* the for loop over the outgoing transitions of node_
for_transitions(B, construct, wrapped_ast, cfg, node_, trs, pool, processed) ==
    IF trs = << >> \/ B.exc # "None" THEN Step(B, pool, processed)
    ELSE next_transition(
             step_to_target(
                 find_target_action_for_transition(
                     gtrs, B, Head(trs), wrapped_ast, B.node[node_].metadata.wrapped_ast),
                 cfg, node_, Head(trs),
                 [i \in 1..2 |->
                     data_resolves(B, construct,
                                   <<gtrs[Head(trs)].to_,
                                     gtrs[Head(trs)].to_when_absent>>[i],
                                   wrapped_ast, B.node[node_].metadata.wrapped_ast)],
                 pool, processed),
             construct, wrapped_ast, cfg, node_, Tail(trs))

RECURSIVE worklist(_, _, _, _, _, _)

\* node = unprocessed_pool.pop(0) for a node that has an action: the pop is
\* logged with the number of its outgoing transitions
pop_node(B, cfg, node_, outgoing_transitions) ==
    [B EXCEPT !.links = Append(@, [kind |-> "pop", cfg |-> cfg, node |-> node_,
                                   role |-> B.node[node_].role,
                                   out |-> Len(outgoing_transitions)])]

\* a variant of the loop body without the assert statement
assert_end_missing(B, role, outgoing_transitions) == B

\* if not outgoing_transitions: assert role == END
assert_end(B, role, outgoing_transitions) ==
    IF outgoing_transitions = << >> /\ role # "END" THEN Raise(B, "AssertionError")
    ELSE B

\* the next round of the while loop, after a round that left r
next_node(r, construct, wrapped_ast, cfg) ==
    worklist(r.B, construct, wrapped_ast, cfg, r.pool, r.processed)

\* the while loop of make_cfg_for_compound
worklist(B, construct, wrapped_ast, cfg, unprocessed_pool, processed_ids) ==
    IF B.exc # "None" THEN B
    ELSE IF unprocessed_pool = << >> THEN Return(B, cfg)
    ELSE
    LET node_ == Head(unprocessed_pool)
        action == id2action(construct, B.node[node_].role)
    IN IF node_ \in processed_ids \/ action = 0
       THEN worklist(B, construct, wrapped_ast, cfg, Tail(unprocessed_pool),
                     processed_ids \cup {node_})
       ELSE next_node(for_transitions(assert_end(
                                          pop_node(B, cfg, node_,
                                              find_transitions_from_action(gtrs, action)),
                                          B.node[node_].role,
                                          find_transitions_from_action(gtrs, action)),
                                      construct, wrapped_ast, cfg, node_,
                                      find_transitions_from_action(gtrs, action),
                                      Tail(unprocessed_pool),
                                      processed_ids \cup {node_}),
                      construct, wrapped_ast, cfg)

\* CFGBuilder.make_cfg_for_compound (cfg = 0: no CFG is passed)
make_cfg_for_compound(B, construct, wrapped_ast, cfg) ==
    LET B1 == IF cfg = 0 THEN new_cfg(B, type_tag(B.wr[wrapped_ast].ast_node)) ELSE B
        g == IF cfg = 0 THEN Len(B.cfgs) + 1 ELSE cfg
    IN worklist(set_boundaries(B1, g, construct, wrapped_ast), construct, wrapped_ast,
                g, <<B1.cfgs[g].begin_node>>, {})

\* CFGBuilder.make_cfg_for_construct (construct = 0: None)
make_cfg_for_construct(B, construct, wrapped_ast, cfg) ==
    IF construct # 0 /\ kind_has(construct, "compound")
    THEN make_cfg_for_compound(B, construct, wrapped_ast, cfg)
    ELSE
    LET cfg_name == "atom_" \o (IF construct # 0 THEN construct_name(construct)
                                ELSE "unknown")
        function_calls == IF IsDict(B.wr[wrapped_ast].ast_node)
                          THEN search_dfs(B.wr[wrapped_ast].ast_node, "function_call")
                          ELSE << >>
    IN IF function_calls # << >>
       THEN process_function_calls_in_cfg(new_cfg(B, cfg_name), Len(B.cfgs) + 1,
                                          function_calls)
       ELSE create_simple_cfg(B, cfg_name)

\* _handle_function_definition, the end: B is what make_cfg_for_construct left
function_registered(B, func_name) ==
    IF B.exc # "None" THEN B
    ELSE create_simple_cfg(B, "function_" \o func_name \o "_definition_registered")

\* _handle_function_definition once the name is extracted (B.name)
define_function_named(B, construct, wrapped_ast) ==
    IF B.exc # "None" THEN B
    ELSE IF B.name = "" THEN create_simple_cfg(B, "empty_function_def")
    ELSE IF func_cfgs_get(B, B.name) # 0 THEN Raise(B, "NotImplementedError")
    ELSE function_registered(
             make_cfg_for_construct(
                 [new_cfg(B, "func_" \o B.name)
                      EXCEPT !.func_cfgs = Append(@, [name |-> B.name,
                                                      cfg |-> Len(B.cfgs) + 1])],
                 construct, wrapped_ast, Len(B.cfgs) + 1),
             B.name)

\* CFGBuilder._handle_function_definition
handle_function_definition(B, construct, wrapped_ast) ==
    define_function_named(extract_function_name(B, wrapped_ast, construct),
                          construct, wrapped_ast)

\* CFGBuilder._process_function_definition_node
process_function_definition_node(B, func_node) ==
    LET func_name == extract_function_name_from_node(func_node)
        construct == find_construct_for_astnode(func_node)
    IN IF func_name = "" THEN B
       ELSE IF func_cfgs_get(B, func_name) # 0 THEN Raise(B, "NotImplementedError")
       ELSE IF construct = 0 THEN NewWrapper(B, func_node, 0)
       ELSE handle_function_definition(NewWrapper(B, func_node, 0), construct, NewId(B))

\* the for loops of _collect_function_definitions
RECURSIVE process_function_definition_nodes(_, _)
process_function_definition_nodes(B, func_nodes) ==
    IF func_nodes = << >> \/ B.exc # "None" THEN B
    ELSE process_function_definition_nodes(
             process_function_definition_node(B, Head(func_nodes)), Tail(func_nodes))

\* CFGBuilder._collect_function_definitions
collect_function_definitions(B, ast_node) ==
    IF glob
    THEN IF type_tag(ast_node) = "program_entry_point"
            /\ (AstGet(ast_node, "body") = 0 \/ IsList(AstGet(ast_node, "body")))
         THEN process_function_definition_nodes(
                  B, SelectSeq(IF AstGet(ast_node, "body") = 0 THEN << >>
                               ELSE ast[AstGet(ast_node, "body")].l,
                               LAMBDA item : type_tag(item) = "function_definition"))
         ELSE B
    ELSE process_function_definition_nodes(B, search_bfs(ast_node, "function_definition"))

\* a variant of the dispatch without the case of the function definition
make_cfg_for_node_no_placeholder(B, construct, wrapped_ast) ==
    IF B.exc # "None" THEN B
    ELSE IF construct # 0 /\ construct_name(construct) = FUNC_CALL_CONSTRUCT
    THEN handle_function_call(B, construct, wrapped_ast)
    ELSE make_cfg_for_construct(B, construct, wrapped_ast, 0)

\* make_cfg_for_ast after the pre-pass, which left B
make_cfg_for_node(B, construct, wrapped_ast) ==
    IF B.exc # "None" THEN B
    ELSE IF construct # 0 /\ construct_name(construct) = FUNC_DEF_CONSTRUCT
    THEN create_simple_cfg(B, "function_def_" \o construct_name(construct))
    ELSE IF construct # 0 /\ construct_name(construct) = FUNC_CALL_CONSTRUCT
    THEN handle_function_call(B, construct, wrapped_ast)
    ELSE make_cfg_for_construct(B, construct, wrapped_ast, 0)

\* CFGBuilder.make_cfg_for_ast
make_cfg_for_ast(B, wrapped_ast) ==
    make_cfg_for_node(IF type_tag(B.wr[wrapped_ast].ast_node) = "program_entry_point"
                      THEN collect_function_definitions(B, B.wr[wrapped_ast].ast_node)
                      ELSE B,
                      find_construct_for_astnode(B.wr[wrapped_ast].ast_node),
                      wrapped_ast)

(***************************************************************************)
(* The parts of the state a specification does not use stay as they are    *)
(* here.                                                                   *)
(***************************************************************************)
NoRet == [op |-> "none", g |-> 0, s |-> 0, removed |-> 0, raised |-> FALSE]

NoFind == [status |-> "idle", tr |-> 0, tried |-> << >>, exc |-> "None",
           action |-> 0, data |-> 0, primary |-> FALSE]

\* the AST and the grammar are loaded before anything runs
NoConstruct == [status |-> "none", given |-> << >>, actions |-> << >>]

IdleInput ==
    /\ ast = Ast
    /\ gacts = ActionSpecs
    /\ cspec = NoConstruct

IdleCFG ==
    /\ idc = IDStart
    /\ cfgs = << >>
    /\ node = << >>
    /\ ret = NoRet
    /\ calls = 0

IdlePath ==
    /\ wr = << >>
    /\ ch = << >>
    /\ pret = NoPRet
    /\ lookups = 0
    /\ first = {}

IdleResolve ==
    /\ gtrs = TransitionSpecs
    /\ find = NoFind

\* n: how many builds were made; idc0, cfgs0: idgen._c and the number of CFG
\* objects when the last build began; same: the last build was made on the
\* builder of the build before it; func0: func_cfgs of the builder when the
\* last build began
NoBuilt == [status |-> "none", cfg |-> 0, exc |-> "None", n |-> 0, idc0 |-> 0, cfgs0 |-> 0,
            same |-> FALSE, func0 |-> << >>]

IdleBuild ==
    /\ glob = FALSE
    /\ func_cfgs = << >>
    /\ built = NoBuilt
    /\ links = << >>

(***************************************************************************)
(* SpecCFG: a client of the CFG container calling create, add_node,        *)
(* connect, merge and optimize in any order.                               *)
(***************************************************************************)
\* metadata a client passes to add_node
NodeMetadatas ==
    {EmptyMetadata, Metadata(1, 0, 0, "True", "None")}

\* (constraints, metadata) pairs a client passes to connect
ConnectArgs ==
    { <<"None", EmptyMetadata>>,
      <<"None", Metadata(0, 2, 0, "None", "False")>>,
      <<"None", Metadata(0, 5, 0, "None", "None")>> }


\* the client has created two CFGs: host = CFG("host"); sub = CFG("sub")
InitHeap ==
    new_cfg(new_cfg([idc |-> IDStart, cfgs |-> << >>, node |-> << >>], "host"), "sub")

\* the client makes one more call, leaving heap H
Call(H) ==
    /\ calls < MaxCalls
    /\ ~ret.raised
    /\ calls' = calls + 1
    /\ idc' = H.idc
    /\ cfgs' = H.cfgs
    /\ node' = H.node
    /\ UNCHANGED <<varsInput, varsPath, varsResolve, varsBuild>>

AddNode(g, md) ==
    /\ Call(add_node_atom(Heap, g, "atom", "stmt", md))
    /\ ret' = [NoRet EXCEPT !.op = "add_node", !.g = g]

AddNodeSub(g, md, s) ==
    /\ Call(add_node_sub(Heap, g, "body", md, s))
    /\ ret' = [NoRet EXCEPT !.op = "add_node_sub", !.g = g, !.s = s]

Connect(g, src, dst, c, md) ==
    /\ Call(connect(Heap, g, src, dst, c, md))
    /\ ret' = [NoRet EXCEPT !.op = "connect", !.g = g]

Merge(g, s) ==
    /\ Call(merge(Heap, g, s))
    /\ ret' = [NoRet EXCEPT !.op = "merge", !.g = g, !.s = s]

Optimize(g) ==
    LET r == optimize(Heap, g)
    IN /\ Call(r.H)
       /\ ret' = [NoRet EXCEPT !.op = "optimize", !.g = g,
                               !.removed = r.removed_count, !.raised = r.raised]

InitCFG ==
    /\ idc = InitHeap.idc
    /\ cfgs = InitHeap.cfgs
    /\ node = InitHeap.node
    /\ ret = NoRet
    /\ calls = 0
    /\ IdleInput
    /\ IdlePath
    /\ IdleResolve
    /\ IdleBuild

NextCFG ==
    \/ \E md \in NodeMetadatas : AddNode(1, md)
    \/ \E s \in DOMAIN cfgs, md \in NodeMetadatas : AddNodeSub(1, md, s)
    \/ \E g \in DOMAIN cfgs :
          \E src \in Range(cfgs[g].nodes), dst \in Range(cfgs[g].nodes),
             a \in ConnectArgs : Connect(g, src, dst, a[1], a[2])
    \/ Merge(1, 2)
    \/ \E g \in DOMAIN cfgs : Optimize(g)

SpecCFG == InitCFG /\ [][NextCFG]_vars

(***************************************************************************)
(* Properties of the CFG container (SpecCFG).                              *)
(***************************************************************************)
NoDuplicateEdges(edges) ==
    \A i, j \in DOMAIN edges : i # j => ~compare(edges[i], edges[j])

\* C1: after any sequence of add_node (with or without subgraph), connect,
\* merge and optimize calls no two edges of a CFG's edge list share
\* (src, dst, constraints); and after merge(s) into g a second merge(s)
\* adds no edge to g.
C1_NoDuplicateEdgeTriple ==
    /\ \A g \in DOMAIN cfgs : NoDuplicateEdges(cfgs[g].edges)
    /\ ret.op = "merge" =>
          merge(Heap, ret.g, ret.s).cfgs[ret.g].edges = cfgs[ret.g].edges

\* a subgraph with edges has been merged into another CFG that already had edges
C1_Witness ==
    /\ ret.op = "merge"
    /\ ret.g # ret.s
    /\ Len(cfgs[ret.s].edges) > 0
    /\ \A i \in DOMAIN cfgs[ret.s].edges :
          \E j \in DOMAIN cfgs[ret.g].edges : cfgs[ret.g].edges[j] = cfgs[ret.s].edges[i]

\* C10: optimize is idempotent: right after an optimize() that returned, a
\* second optimize() of the same CFG returns 0 and changes neither the node
\* map nor the edge list.
C10_OptimizeIdempotent ==
    (ret.op = "optimize" /\ ~ret.raised) =>
        LET r == optimize(Heap, ret.g)
        IN /\ ~r.raised
           /\ r.removed_count = 0
           /\ r.H.cfgs = cfgs
           /\ r.H.node = node

\* an optimize() that removed two nodes has returned
C10_Witness ==
    /\ ret.op = "optimize"
    /\ ~ret.raised
    /\ ret.removed >= 2

(***************************************************************************)
(* SpecPath: a client holding the root wrapper of an AST and every wrapper *)
(* a lookup has returned calls ASTNodeWrapper.get in any order.            *)
(***************************************************************************)
\* how many wrapper objects the client lets the lookups create
MaxWrappers == 6

\* how many lookups the client of SpecPath makes
MaxLookups == 3

\* the property_path strings the client uses, as their pieces between slashes
NonRelativePaths ==
    { <<"branches">>, <<"branches", "[0]">>, <<"branches", " [1] ">>, <<"[2]">>,
      <<"branches", "[0]", "cond">> }

RelativePaths == { <<"^">>, <<"[next]">>, <<" ^ ", " [next]">> }

AbsentPaths ==
    { <<"">>, <<"   ">>, <<"nokey">>, <<"[9]">>, <<"[abc]">>, <<"[-1]">> }

Paths == NonRelativePaths \cup RelativePaths \cup AbsentPaths

Roles == {"branches", "[2]", "nokey"}

\* the previous_action_data the client passes: none, or what its last lookup returned
Previous == {0, pret.res}

PathIdent(path) == [NoPath EXCEPT !.has_path = TRUE, !.property_path = path]

\* the temporary wrapper of a role_in_list lookup is garbage once the lookup
\* returns, unless a wrapper it created has it as parent
collect(P, r) ==
    LET n == Len(r.P.wr)
    IN IF /\ n > Len(P.wr)
          /\ r.res # n
          /\ \A w \in DOMAIN r.P.wr : r.P.wr[w].parent # n
          /\ \A c \in DOMAIN r.P.ch : \A i \in DOMAIN r.P.ch[c].l : r.P.ch[c].l[i] # n
          /\ \A c \in DOMAIN r.P.ch : \A k \in Keys : r.P.ch[c].d[k] # n
       THEN [r EXCEPT !.P.wr = SubSeq(@, 1, n - 1)]
       ELSE r

\* the client takes the result r of self.get(role, identification, previous)
Returned(op, self, role, identification, previous, r) ==
    /\ ~pret.raised
    /\ lookups < MaxLookups
    /\ Len(r.P.wr) <= MaxWrappers
    /\ lookups' = lookups + 1
    /\ wr' = r.P.wr
    /\ ch' = r.P.ch
    /\ pret' = [op |-> op, self |-> self, role |-> role,
                identification |-> identification, previous |-> previous,
                res |-> r.res, raised |-> r.raised]
    /\ first' = IF /\ op = "path"
                   /\ identification.property_path \in NonRelativePaths
                   /\ r.res # 0
                   /\ ~\E f \in first : /\ f[1] = self
                                        /\ f[2] = identification.property_path
                THEN first \cup {<<self, identification.property_path, r.res>>}
                ELSE first
    /\ UNCHANGED <<varsInput, varsCFG, varsResolve, varsBuild>>

\* self.get(role, identification, previous)
Get(op, self, role, identification, previous) ==
    Returned(op, self, role, identification, previous,
             collect(PathHeap, resolve(PathHeap, self, role, identification, previous)))

IdentKinds == {"None", "empty", "falsy", "other"}

GetByRole(self, role, kind) ==
    Get("role", self, role, [NoPath EXCEPT !.kind = kind], 0)

GetPath(self, path, previous) ==
    Get("path", self, "role", PathIdent(path), previous)

GetProperty(self, prop, origin) ==
    Get("property", self, "role", [NoPath EXCEPT !.property = prop, !.origin = origin], 0)

GetInList(self, prop, origin, role_in_list, previous) ==
    Get("in_list", self, "role",
        [NoPath EXCEPT !.property = prop, !.origin = origin,
                       !.role_in_list = role_in_list], previous)

GetPrevious(self, prop, path, previous) ==
    Get("previous", self, "role",
        IF path = << >>
        THEN [NoPath EXCEPT !.property = prop, !.origin = "previous"]
        ELSE [PathIdent(path) EXCEPT !.property = prop, !.origin = "previous"],
        previous)

InitPath ==
    /\ wr = <<[ast_node |-> AstRoot, parent |-> 0, children |-> 0]>>
    /\ ch = << >>
    /\ pret = NoPRet
    /\ lookups = 0
    /\ first = {}
    /\ IdleInput
    /\ IdleCFG
    /\ IdleResolve
    /\ IdleBuild

NextPath ==
    \/ \E self \in DOMAIN wr, role \in Roles, kind \in IdentKinds :
          GetByRole(self, role, kind)
    \/ \E self \in DOMAIN wr, path \in Paths, previous \in Previous :
          GetPath(self, path, previous)
    \/ \E self \in DOMAIN wr, prop \in {"branches", "cond"}, origin \in {"None", "parent"} :
          GetProperty(self, prop, origin)
    \/ \E self \in DOMAIN wr, prop \in {"branches", "body", "None"},
          origin \in {"None", "parent"},
          role_in_list \in {"first_in_list", "next_in_list"},
          previous \in Previous :
          GetInList(self, prop, origin, role_in_list, previous)
    \/ \E self \in DOMAIN wr, prop \in {"cond", "None"}, path \in {<< >>, <<"[next]">>},
          previous \in Previous :
          GetPrevious(self, prop, path, previous)

SpecPath == InitPath /\ [][NextPath]_vars

(***************************************************************************)
(* Properties of the path resolver (SpecPath).                             *)
(***************************************************************************)
LastPath == split_path(pret.identification.property_path)

\* self is the wrapper cached at position N (1-based) of the children list
\* of its parent, and wraps the N-th element of the parent's list
CachedElement(self, N) ==
    LET p == wr[self].parent
    IN /\ p # 0
       /\ wr[p].ast_node > 0
       /\ ast[wr[p].ast_node].shape = "list"
       /\ wr[p].children # 0
       /\ ch[wr[p].children].kind = "list"
       /\ N \in DOMAIN ch[wr[p].children].l
       /\ N \in DOMAIN ast[wr[p].ast_node].l
       /\ ch[wr[p].children].l[N] = self
       /\ wr[self].ast_node = ast[wr[p].ast_node].l[N]

\* C6: resolving the same non-relative path twice from one wrapper yields
\* the same wrapper object, whatever lookups were made in between: a path
\* lookup returns what the first resolution of that path from that wrapper
\* returned.
C6_SamePathSameWrapper ==
    (pret.op = "path" /\ pret.identification.property_path \in NonRelativePaths) =>
        \A f \in first :
            (f[1] = pret.self /\ f[2] = pret.identification.property_path) =>
                (~pret.raised /\ pret.res = f[3])

\* one component that cannot be followed from wrapper self
DeadEnd(self, comp) ==
    LET a == wr[self].ast_node
    IN IF comp = "^" THEN wr[self].parent = 0
       ELSE IF comp = "[next]"
       THEN \E N \in 1..3 : /\ CachedElement(self, N)
                            /\ N = Len(ast[wr[wr[self].parent].ast_node].l)
       ELSE IF is_bracket(comp)
       THEN \/ ~isdigit(BracketInner[comp])
            \/ ~IsList(a)
            \/ DigitValue[BracketInner[comp]] >= ListLen(PathHeap, a)
       ELSE ~IsDict(a) \/ AstGet(a, comp) = 0

\* C7: path resolution never raises and returns absent for the empty and the
\* whitespace-only path, an unknown key, an out-of-range, non-numeric or
\* negative index, '^' without parent, '[next]' at the last element and a
\* key or index applied to a value of the wrong shape; an identification
\* that is not a map yields absent.
C7_AbsentNeverRaises ==
    /\ pret.op = "path" =>
          /\ ~pret.raised
          /\ LastPath = << >> => pret.res = 0
          /\ (Len(LastPath) = 1 /\ DeadEnd(pret.self, LastPath[1])) => pret.res = 0
    /\ pret.identification.kind \in {"falsy", "other"} =>
          (~pret.raised /\ pret.res = 0)

\* C8: '[next]' applied to the cached wrapper of list element N returns the
\* wrapper cached for element N+1 of the same parent, and absent when N is
\* the last index, also when elements of the list have equal content.
C8_NextOfCachedElement ==
    (pret.op = "path" /\ LastPath = <<"[next]">>) =>
        \A N \in 1..3 :
            CachedElement(pret.self, N) =>
                LET p == wr[pret.self].parent
                    l == ch[wr[p].children].l
                IN /\ ~pret.raised
                   /\ IF N = Len(l) THEN pret.res = 0
                      ELSE /\ pret.res # 0
                           /\ pret.res = l[N + 1]
                           /\ wr[pret.res].parent = p
                           /\ wr[pret.res].ast_node = ast[wr[p].ast_node].l[N + 1]

(***************************************************************************)
(* SpecResolve: the builder calls find_target_action_for_transition on a   *)
(* construct whose transitions are any list gtrs over the roles of the     *)
(* "probe" construct, for the root wrapper of the AST (no previous data).  *)
(* FindRound is one round of the while loop of the call.                   *)
(***************************************************************************)
\* how many rounds of the while loop are followed
MaxChain == 4

\* to and to_when_absent of the transitions the grammar may hold: the data
\* of cond and body is present in the AST, that of alt and other is absent
ProbeTo == {"cond", "alt", "other", "END"}
ProbeToWhenAbsent == {"None", "body", "other", "END"}

ProbeTransitions(froms) ==
    {TransitionSpec("probe", f, t, a, "None", << >>) :
        f \in froms, t \in ProbeTo, a \in ProbeToWhenAbsent}

InitResolve ==
    /\ gtrs \in {<<t1, t2, t3>> : t1 \in ProbeTransitions({"BEGIN"}),
                                  t2 \in ProbeTransitions({"alt"}),
                                  t3 \in ProbeTransitions({"alt", "other"})}
    /\ find = NoFind
    /\ wr = <<[ast_node |-> AstRoot, parent |-> 0, children |-> 0]>>
    /\ ch = << >>
    /\ pret = NoPRet
    /\ lookups = 0
    /\ first = {}
    /\ IdleInput
    /\ IdleCFG
    /\ IdleBuild

\* construct.find_target_action_for_transition(tr, wrapped_ast) is called
FindCall(tr) ==
    /\ find.status = "idle"
    /\ find' = [NoFind EXCEPT !.status = "running", !.tr = tr]
    /\ UNCHANGED <<varsInput, varsCFG, varsPath, varsBuild, gtrs>>

\* the call has run one more round of its loop, which left r
FindRound(r) ==
    /\ find.status = "running"
    /\ Len(find.tried) < MaxChain
    /\ find' = [status |-> IF r.status = "continue" THEN "running" ELSE r.status,
                tr |-> IF r.status = "continue" THEN r.next ELSE find.tr,
                tried |-> Append(find.tried, find.tr),
                exc |-> r.exc, action |-> r.action, data |-> r.data,
                primary |-> r.primary]
    /\ wr' = r.P.wr
    /\ ch' = r.P.ch
    /\ UNCHANGED <<varsInput, varsCFG, varsBuild, pret, lookups, first, gtrs>>

NextResolve ==
    \/ \E tr \in DOMAIN gtrs : FindCall(tr)
    \/ FindRound(find_target_round(gtrs, PathHeap, find.tr, 1, 0))

SpecResolve == InitResolve /\ [][NextResolve]_vars

(***************************************************************************)
(* Properties of find_target_action_for_transition (SpecResolve).          *)
(***************************************************************************)
\* C5: the fallback-chain search never revisits a transition already in
\* the current chain: the transition a call is about to try is none of
\* those it has tried, and it ends with a resolved target or with the
\* failure.
C5_NeverRevisitsTransition ==
    /\ find.status = "running" => find.tr \notin Range(find.tried)
    /\ \A i, j \in DOMAIN find.tried : i # j => find.tried[i] # find.tried[j]

(***************************************************************************)
(* SpecBuild: a client makes a wrapper of the program root and a builder   *)
(* for the grammar and calls make_cfg_for_ast; it may do so once more, in  *)
(* the same process, with a new wrapper and a new builder.                 *)
(***************************************************************************)
\* how many statements the body of the program has at most
MaxProg == 3

\* how many builds the client makes at most
MaxBuilds == 2

\* the bodies a program may have: statements, none of them twice
ProgramBodies ==
    UNION {{p \in [1..n -> Statements] : \A i, j \in 1..n : i # j => p[i] # p[j]} :
              n \in 0..MaxProg}

\* the heap a new builder starts from: program_root = ASTNodeWrapper(ast_node=ast_json)
\* and b = CFGBuilder(constructs, glob), whose func_cfgs is empty
BuilderHeap ==
    [idc |-> idc, cfgs |-> cfgs, node |-> node,
     wr |-> Append(wr, [ast_node |-> Program.Root, parent |-> 0, children |-> 0]),
     ch |-> ch, func_cfgs |-> << >>, links |-> << >>, exc |-> "None", ret |-> 0,
     name |-> ""]

InitBuild ==
    /\ \E p \in ProgramBodies : ast = [Ast EXCEPT ![Program.Body] = AstList(p)]
    /\ gacts = ActionSpecs
    /\ glob \in BOOLEAN
    /\ func_cfgs = << >>
    /\ built = NoBuilt
    /\ links = << >>
    /\ cspec = NoConstruct
    /\ IdlePath
    /\ IdleCFG
    /\ IdleResolve

\* a variant in which a builder starts every build with an empty registry
ClearedBuilderHeap ==
    [BuilderHeap EXCEPT
        !.wr = Append(wr, [ast_node |-> Program2.Root, parent |-> 0, children |-> 0])]

\* the heap of the builder b of the last build, given another program:
\* program_root2 = ASTNodeWrapper(ast_node=ast_json2); b.func_cfgs is what
\* the last build left
SameBuilderHeap ==
    [BuilderHeap EXCEPT
        !.wr = Append(wr, [ast_node |-> Program2.Root, parent |-> 0, children |-> 0]),
        !.func_cfgs = func_cfgs]

\* the bodies of the program of a second build on the same builder
SecondBodies == {<<21>>, <<25>>, <<27, 25>>}

\* the build leaves heap B
Built(B, same) ==
    /\ idc' = B.idc
    /\ cfgs' = B.cfgs
    /\ node' = B.node
    /\ wr' = B.wr
    /\ ch' = B.ch
    /\ func_cfgs' = B.func_cfgs
    /\ links' = B.links
    /\ built' = [status |-> IF B.exc = "None" THEN "returned" ELSE "raised",
                 cfg |-> IF B.exc = "None" THEN B.ret ELSE 0,
                 exc |-> B.exc, n |-> built.n + 1,
                 idc0 |-> idc, cfgs0 |-> Len(cfgs),
                 same |-> same, func0 |-> IF same THEN func_cfgs ELSE << >>]

\* the client has builds left
MayBuild == built.n < MaxBuilds

\* the client has read a second program for the builder of the last build
Again == ast[Program2.Body].l # << >>

\* the heap of the builder the next build is called on
NextBuilderHeap == IF Again THEN SameBuilderHeap ELSE BuilderHeap

\* cfg = b.make_cfg_for_ast(program_root): b is a new builder, or, when the
\* client has read a second program, the builder of the last build
Build ==
    /\ MayBuild
    /\ \E B \in {make_cfg_for_ast(NextBuilderHeap, Len(wr) + 1)} : Built(B, Again)
    /\ UNCHANGED <<varsInput, ret, calls, pret, lookups, first, varsResolve, glob>>

\* the client of a builder that has made a build reads another program
ReadProgram2(p) ==
    /\ built.n = 1
    /\ MayBuild
    /\ ast[Program2.Body].l = << >>
    /\ ast' = [ast EXCEPT ![Program2.Body] = AstList(p)]
    /\ UNCHANGED <<gacts, cspec, varsCFG, varsPath, varsResolve, varsBuild>>

NextBuild ==
    \/ Build
    \/ \E p \in SecondBodies : ReadProgram2(p)

SpecBuild == InitBuild /\ [][NextBuild]_vars

(***************************************************************************)
(* The creation of ConstructSpec objects: by the constructor with a dict   *)
(* of actions, and by load_constructs from the actions of the file.        *)
(***************************************************************************)
GivenRoles == {"BEGIN", "END", "body"}

\* the actions a caller may give: a BEGIN or END action is of its own
\* kind, with effects or without
GivenAction(role, effects) ==
    [ActionSpec("given", role, IF role = "body" THEN "compound" ELSE role, "None",
                IdentObject) EXCEPT !.effects = effects]

GivenActions ==
    {GivenAction(role, effects) :
        role \in GivenRoles, effects \in {<< >>, <<"interruption_start=return">>}}

\* the dicts of actions: each role at most once, in any order
GivenDicts ==
    {acts \in UNION {[1..n -> GivenActions] : n \in 0..Cardinality(GivenRoles)} :
        \A i, j \in DOMAIN acts : acts[i].role = acts[j].role => i = j}

InitConstruct ==
    /\ IdleInput
    /\ IdleCFG
    /\ IdlePath
    /\ IdleResolve
    /\ IdleBuild

\* ConstructSpec(name="given", actions=given)
CreateConstruct(given) ==
    /\ cspec' = [status |-> "created", given |-> given,
                     actions |-> post_init("given", given)]
    /\ UNCHANGED <<ast, gacts, varsCFG, varsPath, varsResolve, varsBuild>>

\* load_constructs on a file whose construct "given" has the actions given
LoadConstruct(given) ==
    /\ cspec' = [status |-> "loaded", given |-> given,
                     actions |-> load_construct("given", given)]
    /\ UNCHANGED <<ast, gacts, varsCFG, varsPath, varsResolve, varsBuild>>

NextConstruct ==
    \/ \E given \in GivenDicts : CreateConstruct(given)
    \/ \E given \in GivenDicts : LoadConstruct(given)

SpecConstruct == InitConstruct /\ [][NextConstruct]_vars

(***************************************************************************)
(* Properties of the constructs (SpecConstruct).                           *)
(***************************************************************************)
\* C18: a construct has exactly one BEGIN and one END action, and a BEGIN or
\* END action that was given is the one the construct has, with its effects.
C18_BoundariesKept ==
    cspec.status # "none" =>
        /\ \A b \in {"BEGIN", "END"} :
              Cardinality({i \in DOMAIN cspec.actions :
                              cspec.actions[i].role = b}) = 1
        /\ \A i \in DOMAIN cspec.given :
              cspec.given[i].role \in {"BEGIN", "END"} =>
                  cspec.given[i] \in Range(cspec.actions)

(***************************************************************************)
(* Properties of the builder (SpecBuild).                                  *)
(***************************************************************************)
\* the positions of the log entries of a kind
Logged(kind) == {i \in DOMAIN links : links[i].kind = kind}

\* C11: when the target of a transition cannot be resolved anywhere in its
\* fallback chain (find_target_action_for_transition ends with ValueError),
\* the build raises an exception and returns no CFG.
C11_UnresolvedAborts ==
    \A i \in Logged("unresolved") :
        /\ built.status = "raised"
        /\ built.cfg = 0
        /\ i = Len(links)

\* the build of a program with an expression statement that has no value has
\* raised out of the except clause: BEGIN -> value has no target and value
\* has no transition to go on with
C11_Witness ==
    /\ built.status = "raised"
    /\ built.exc = "AttributeError"
    /\ \E i \in Logged("unresolved") :
          /\ gtrs[links[i].tr].construct = "expr_statement"
          /\ gtrs[links[i].tr].to_ = "value"
          /\ node[links[i].src].role = "BEGIN"

\* C12: when the worklist pops a node whose action has no outgoing
\* transition, the build fails there if the role is not END; if the role is
\* END the worklist adds no edge from the node and the build goes on.
C12_DeadEndAsserts ==
    \A i \in Logged("pop") :
        links[i].out = 0 =>
            IF links[i].role # "END"
            THEN /\ built.status = "raised"
                 /\ built.exc = "AssertionError"
                 /\ i = Len(links)
            ELSE /\ \A j \in Logged("worklist") :
                        ~(links[j].cfg = links[i].cfg /\ links[j].src = links[i].node)
                 /\ ~(i = Len(links) /\ built.exc = "AssertionError")

\* a build has popped the END node of a finished construct, gone on, and has
\* failed at the popped node of a role without outgoing transitions
C12_Witness ==
    /\ built.status = "raised"
    /\ built.exc = "AssertionError"
    /\ \E i, j \in Logged("pop") :
          /\ i < j
          /\ links[i].out = 0
          /\ links[i].role = "END"
          /\ links[j].out = 0
          /\ links[j].role = "value"

\* the function definitions of the configured scope, in the order in which
\* the pre-pass meets them, and the name each declares
DefinitionsOf(program) ==
    IF glob
    THEN SelectSeq(ast[program.Body].l,
                   LAMBDA item : type_tag(item) = "function_definition")
    ELSE search_bfs(program.Root, "function_definition")

\* the definitions the builder of the last build has met
DefinitionNodes ==
    IF built.same THEN DefinitionsOf(Program) \o DefinitionsOf(Program2)
    ELSE DefinitionsOf(Program)

DefinedName(i) == extract_function_name_from_node(DefinitionNodes[i])

\* how many of them the builder had met before the last build
MetBefore == IF built.same THEN Len(DefinitionsOf(Program)) ELSE 0

\* the definition node a registered CFG was built for
RegisteredFor(i) ==
    wr[node[cfgs[func_cfgs[i].cfg].begin_node].metadata.wrapped_ast].ast_node

\* C13: a function name is registered to at most one CFG, the CFG of the
\* first definition of the name that the pre-pass met; when the scope holds
\* a second definition of a name the build raises, and when it raises
\* NotImplementedError the first registration is still in the registry.
C13_OneCfgPerName ==
    built.n > 0 =>
        /\ \A i, j \in DOMAIN func_cfgs :
              func_cfgs[i].name = func_cfgs[j].name => i = j
        /\ \A i \in DOMAIN func_cfgs :
              \E d \in DOMAIN DefinitionNodes :
                  /\ DefinedName(d) = func_cfgs[i].name
                  /\ RegisteredFor(i) = DefinitionNodes[d]
                  /\ \A e \in 1..(d - 1) : DefinedName(e) # DefinedName(d)
        /\ (\E d, e \in DOMAIN DefinitionNodes :
                 d < e /\ MetBefore < e /\ DefinedName(d) = DefinedName(e))
              => built.status = "raised"
        /\ built.exc = "NotImplementedError" =>
              \E d, e \in DOMAIN DefinitionNodes :
                  /\ d < e
                  /\ MetBefore < e
                  /\ DefinedName(d) = DefinedName(e)
                  /\ \E i \in DOMAIN func_cfgs : RegisteredFor(i) = DefinitionNodes[d]

\* a build met the second definition of g and has raised
C13_Witness ==
    /\ built.exc = "NotImplementedError"
    /\ \E i \in DOMAIN func_cfgs : func_cfgs[i].name = "g"
    /\ \E d, e \in DOMAIN DefinitionNodes :
          d < e /\ DefinedName(d) = "g" /\ DefinedName(e) = "g"

\* the nodes that the edges es lead to from the nodes of S
RECURSIVE ReachableFrom(_, _)
ReachableFrom(es, S) ==
    LET T == S \cup {es[i].dst : i \in {j \in DOMAIN es : es[j].src \in S}}
    IN IF T = S THEN S ELSE ReachableFrom(es, T)

\* the CFGs built for if statements, and the nodes of a CFG with a role
IfCfgs == {g \in DOMAIN cfgs : cfgs[g].name = "if_statement"}

NodesWithRole(g, role) == {n \in Range(cfgs[g].nodes) : node[n].role = role}

\* the END nodes of g that belong to the construct g was built for
ConstructEnds(g) ==
    {n \in NodesWithRole(g, "END") :
        /\ node[n].metadata.wrapped_ast # 0
        /\ node[n].metadata.wrapped_ast = node[cfgs[g].begin_node].metadata.wrapped_ast}

\* C14: the CFG built for a two-branch if statement has exactly one node with
\* role first_cond, an edge with condition_value True, an edge with
\* condition_value False, and exactly one END node of the if construct, which
\* every node of a branch body reaches.
C14_IfStatementShape ==
    built.status = "returned" =>
        \A g \in IfCfgs :
            /\ Cardinality(NodesWithRole(g, "first_cond")) = 1
            /\ \E i \in DOMAIN cfgs[g].edges :
                  cfgs[g].edges[i].constraints = "condition_value=True"
            /\ \E i \in DOMAIN cfgs[g].edges :
                  cfgs[g].edges[i].constraints = "condition_value=False"
            /\ ConstructEnds(g) = {cfgs[g].end_node}
            /\ \A n \in NodesWithRole(g, "if_branch") \cup NodesWithRole(g, "else_branch") :
                  cfgs[g].end_node \in ReachableFrom(cfgs[g].edges, {n})

\* the call node a CFG named function_call was built for, and the CFGs built
\* for call nodes whose callee is in no registry entry
CallSite(g) == wr[node[cfgs[g].begin_node].metadata.wrapped_ast].ast_node

UnregisteredCallCfgs ==
    {g \in DOMAIN cfgs :
        /\ cfgs[g].name = "function_call"
        /\ node[cfgs[g].begin_node].metadata.wrapped_ast # 0
        /\ \A i \in DOMAIN func_cfgs :
              func_cfgs[i].name # extract_function_name_from_call_node(CallSite(g))}

HasCallStackEffect(e) ==
    \E i \in DOMAIN e.effects :
        e.effects[i] \in {"call_stack=add_frame", "call_stack=drop_frame"}

\* the CFG of the call site is complete and no call count went up
UnregisteredCallGoesOn(g) ==
    /\ cfgs[g].end_node \in ReachableFrom(cfgs[g].edges, {cfgs[g].begin_node})
    /\ \A n \in DOMAIN node : node[n].metadata.call_count = 0

\* C15: the CFG built for a call of an unregistered callee is completed, has
\* no edge with a call-stack effect, and no call count is incremented.
C15_UnregisteredCallPlain ==
    \A g \in UnregisteredCallCfgs :
        /\ UnregisteredCallGoesOn(g)
        /\ \A i \in DOMAIN cfgs[g].edges : ~HasCallStackEffect(cfgs[g].edges[i])

\* a CFG of exactly BEGIN, END and the edge BEGIN -> END
Trivial(g) ==
    /\ cfgs[g].nodes = <<cfgs[g].begin_node, cfgs[g].end_node>>
    /\ Len(cfgs[g].edges) = 1
    /\ cfgs[g].edges[1].src = cfgs[g].begin_node
    /\ cfgs[g].edges[1].dst = cfgs[g].end_node

\* the CFGs the builder returns for function definitions
Placeholders ==
    {g \in DOMAIN cfgs :
        \/ cfgs[g].name = "function_def_func_def_structure"
        \/ \E i \in DOMAIN func_cfgs :
              cfgs[g].name = "function_" \o func_cfgs[i].name \o "_definition_registered"}

\* the enter nodes that stand in CFG g for a function definition: the enter
\* and the leave node of the pair wrap the definition
DefinitionEnters(g) ==
    {n \in Range(cfgs[g].nodes) :
        /\ n + 1 \in Range(cfgs[g].nodes)
        /\ node[n].role \notin {"BEGIN", "END"}
        /\ node[n].metadata.wrapped_ast # 0
        /\ node[n + 1].metadata.wrapped_ast = node[n].metadata.wrapped_ast
        /\ type_tag(wr[node[n].metadata.wrapped_ast].ast_node) = "function_definition"}

\* between the enter node n and its leave node CFG g has BEGIN -> END only
OnlyPlaceholderBetween(g, n) ==
    LET from(m) == outgoing(cfgs[g].edges, m)
    IN /\ Len(from(n)) = 1
       /\ node[from(n)[1].dst].role = "BEGIN"
       /\ Len(from(from(n)[1].dst)) = 1
       /\ node[from(from(n)[1].dst)[1].dst].role = "END"
       /\ Len(from(from(from(n)[1].dst)[1].dst)) = 1
       /\ from(from(from(n)[1].dst)[1].dst)[1].dst = n + 1

\* the CFG registered in entry i holds the body of the definition: BEGIN leads
\* to the enter node of the body, whose subgraph is in the CFG, and the leave
\* node of the body leads to END
BodyRegistered(i) ==
    LET g == func_cfgs[i].cfg
    IN /\ cfgs[g].name = "func_" \o func_cfgs[i].name
       /\ \E n \in NodesWithRole(g, "body") :
             /\ wr[node[n].metadata.wrapped_ast].ast_node = AstGet(RegisteredFor(i), "body")
             /\ \E e \in Range(cfgs[g].edges) : e.src = cfgs[g].begin_node /\ e.dst = n
             /\ \E e \in Range(cfgs[g].edges) : e.src = n + 1 /\ e.dst = cfgs[g].end_node
             /\ Len(outgoing(cfgs[g].edges, n)) = 1
             /\ outgoing(cfgs[g].edges, n)[1].dst \in Range(cfgs[g].nodes)

\* C16: after a build that returned, the CFG registered for a function holds
\* the CFG of its body, every CFG returned for a definition is BEGIN -> END,
\* and where a definition stands in an enclosing CFG there is nothing but
\* such a placeholder between its enter and its leave node.
C16_DefinitionPlaceholder ==
    built.status = "returned" =>
        /\ \A i \in DOMAIN func_cfgs : BodyRegistered(i)
        /\ \A g \in Placeholders : Trivial(g)
        /\ \A g \in DOMAIN cfgs : \A n \in DefinitionEnters(g) : OnlyPlaceholderBetween(g, n)

\* a build returned a program CFG in which a registered definition stands
C16_Witness ==
    /\ built.status = "returned"
    /\ func_cfgs # << >>
    /\ DefinitionEnters(built.cfg) # {}
    /\ \E g \in Placeholders : cfgs[g].name = "function_g_definition_registered"

\* the edges of all CFGs, and the identifiers of CFGs, nodes and edges
AllEdges == UNION {Range(cfgs[g].edges) : g \in DOMAIN cfgs}

CfgIds == {cfgs[g].id : g \in DOMAIN cfgs}
NodeIds == DOMAIN node
EdgeIds == {e.id : e \in AllEdges}

\* the node and edge identifiers of the graph of CFG g
GraphIds(g) == Range(cfgs[g].nodes) \cup {e.id : e \in Range(cfgs[g].edges)}

\* C17: the identifiers the generator gave out are pairwise distinct: an
\* identifier names one edge, one node or one CFG, and it is below the
\* counter; the graphs of a second build over the same AST have no
\* identifier in common with the graphs of the first.
C17_IdsNeverReused ==
    /\ \A e1, e2 \in AllEdges : e1.id = e2.id => e1 = e2
    /\ \A g \in DOMAIN cfgs : \A i, j \in DOMAIN cfgs[g].edges :
          cfgs[g].edges[i].id = cfgs[g].edges[j].id => i = j
    /\ \A g, h \in DOMAIN cfgs : cfgs[g].id = cfgs[h].id => g = h
    /\ EdgeIds \cap NodeIds = {}
    /\ CfgIds \cap (NodeIds \cup EdgeIds) = {}
    /\ \A x \in CfgIds \cup NodeIds \cup EdgeIds : IDStart <= x /\ x < idc
    /\ (built.n = 2 /\ ~built.same) =>
          \A g, h \in DOMAIN cfgs :
              g <= built.cfgs0 /\ built.cfgs0 < h => GraphIds(g) \cap GraphIds(h) = {}

\* two builds over the same AST were made, and both left graphs with edges
C17_Witness ==
    /\ built.n = 2
    /\ ~built.same
    /\ \E g, h \in DOMAIN cfgs :
          /\ g <= built.cfgs0
          /\ built.cfgs0 < h
          /\ cfgs[g].name = "program_entry_point"
          /\ cfgs[h].name = "program_entry_point"
          /\ Len(cfgs[g].edges) > 1
          /\ Len(cfgs[h].edges) > 1

\* the edges of CFG g with an end that is not in the node map of g
Dangling(g) ==
    {e \in Range(cfgs[g].edges) :
        e.src \notin Range(cfgs[g].nodes) \/ e.dst \notin Range(cfgs[g].nodes)}

\* C19: after a build that returned, every edge of every CFG has its src and
\* its dst in the node map of that CFG.
C19_NoDanglingEdge ==
    built.status = "returned" => \A g \in DOMAIN cfgs : Dangling(g) = {}

\* the AST value a node of the CFG wraps
WrappedData(n) == wr[node[n].metadata.wrapped_ast].ast_node

\* C20: a connect of the worklist that reuses an existing node reuses a
\* node with the role of the target that wraps the very AST value the target
\* resolved to, and a connect that creates a node is the only one in its
\* CFG that creates a node for this role and this AST value.
C20_ReuseByIdentity ==
    \A i \in Logged("worklist") :
        /\ ~links[i].created =>
              /\ node[links[i].dst].role = links[i].role
              /\ WrappedData(links[i].dst) = links[i].data
        /\ links[i].created =>
              \A j \in Logged("worklist") :
                  (/\ links[j].created
                   /\ links[j].cfg = links[i].cfg
                   /\ links[j].role = links[i].role
                   /\ links[j].data = links[i].data) => j = i

\* the name a call node calls, and the registry entries of a name
Callee(call_node) == extract_function_name_from_call_node(call_node)

RegisteredAs(name) == {k \in DOMAIN func_cfgs : func_cfgs[k].name = name}

\* the CFGs built for call sites whose callee is defined in the scope
CallCfgsOfDefined ==
    {g \in DOMAIN cfgs :
        /\ cfgs[g].name = "function_call"
        /\ node[cfgs[g].begin_node].metadata.wrapped_ast # 0
        /\ \E d \in DOMAIN DefinitionNodes : DefinedName(d) = Callee(CallSite(g))}

\* C2: after a build that returned, every function definition of the scope
\* is registered, and the CFG built for a call site whose callee is defined
\* in the scope was linked to the CFG registered for the callee, wherever
\* the call site is.
C2_CallsLinkedToRegistered ==
    built.status = "returned" =>
        /\ \A d \in DOMAIN DefinitionNodes : RegisteredAs(DefinedName(d)) # {}
        /\ \A g \in CallCfgsOfDefined :
              \E i \in Logged("call") :
                  /\ links[i].call_cfg = g
                  /\ links[i].site = CallSite(g)
                  /\ \E k \in RegisteredAs(Callee(CallSite(g))) :
                        func_cfgs[k].cfg = links[i].func_cfg

\* call_count on the BEGIN node of the CFG registered in entry k, and the
\* call sites that were linked to that CFG
CallCount(k) == node[cfgs[func_cfgs[k].cfg].begin_node].metadata.call_count

LinkedSites(k) ==
    {links[i].site : i \in {j \in Logged("call") : links[j].func_cfg = func_cfgs[k].cfg}}

\* C3: after a build that returned, the call count of a registered function
\* is the number of call sites that were linked to it.
C3_CallCountIsLinkedSites ==
    built.status = "returned" =>
        \A k \in DOMAIN func_cfgs : CallCount(k) = Cardinality(LinkedSites(k))

\* C4: a call site that was linked embeds the CFG registered under the
\* callee: the call CFG holds BEGIN and END of the registered CFG themselves,
\* with the edges enter -> BEGIN and END -> leave, also when the call site is
\* in the body of the callee; and no CFG holds a node twice.
C4_CallEmbedsRegistered ==
    /\ \A i \in Logged("call") :
          LET c == cfgs[links[i].call_cfg]
              f == cfgs[links[i].func_cfg]
          IN /\ \E k \in RegisteredAs(links[i].callee) : func_cfgs[k].cfg = links[i].func_cfg
             /\ {f.begin_node, f.end_node, links[i].enter, links[i].leave} \subseteq Range(c.nodes)
             /\ \E e \in Range(c.edges) : e.src = links[i].enter /\ e.dst = f.begin_node
             /\ \E e \in Range(c.edges) : e.src = f.end_node /\ e.dst = links[i].leave
    /\ \A g \in DOMAIN cfgs : \A m, n \in DOMAIN cfgs[g].nodes :
          cfgs[g].nodes[m] = cfgs[g].nodes[n] => m = n

\* a call site in the body of g and a call site outside it were linked to g
C4_Witness ==
    \E i, j \in Logged("call") :
        /\ links[i].callee = "g"
        /\ links[j].callee = "g"
        /\ links[i].func_cfg = links[j].func_cfg
        /\ links[i].site = AstGet(RegisteredFor(CHOOSE k \in RegisteredAs("g") : TRUE), "body")
        /\ links[j].site # links[i].site

\* the connect logged in links[i] made, or found, an edge src -> dst that
\* carries the constraints of the transition
ConnectedAlong(i) ==
    \E e \in Range(cfgs[links[i].cfg].edges) :
        /\ e.src = links[i].src
        /\ e.dst = links[i].dst
        /\ e.constraints = gtrs[links[i].tr].constraints

\* the target of the connect logged in links[i] is the primary one when the
\* data of to_ resolves, else the fallback to_when_absent
TargetChosen(i) ==
    /\ links[i].resolves[1] =>
          /\ links[i].primary
          /\ links[i].role = gtrs[links[i].tr].to_
    /\ (~links[i].resolves[1] /\ links[i].resolves[2]) =>
          /\ ~links[i].primary
          /\ links[i].role = gtrs[links[i].tr].to_when_absent
          /\ node[links[i].dst].role = gtrs[links[i].tr].to_when_absent
          /\ ConnectedAlong(i)

\* C9 as stated: the target is to_ flagged primary when its data resolves,
\* even when to_when_absent resolves too; else it is to_when_absent flagged
\* non-primary, and the node the worklist connects to says non-primary.
C9_FallbackNodeNonPrimary ==
    \A i \in Logged("worklist") :
        /\ TargetChosen(i)
        /\ (~links[i].resolves[1] /\ links[i].resolves[2]) =>
              node[links[i].dst].metadata.primary = "False"

\* C9, amended: the node says non-primary when the connect created it; a
\* node that is reused keeps the metadata it was created with.
C9_FallbackNodeNonPrimaryIfCreated ==
    \A i \in Logged("worklist") :
        /\ TargetChosen(i)
        /\ (~links[i].resolves[1] /\ links[i].resolves[2] /\ links[i].created) =>
              node[links[i].dst].metadata.primary = "False"
        /\ (links[i].resolves[1] /\ links[i].created) =>
              node[links[i].dst].metadata.primary = "True"

\* a worklist took a fallback to a node it created, a fallback to a node it
\* reused, and a primary target whose fallback resolved too
C9_Witness ==
    \E i, j, k \in Logged("worklist") :
        /\ ~links[i].resolves[1] /\ links[i].resolves[2] /\ links[i].created
        /\ ~links[j].resolves[1] /\ links[j].resolves[2] /\ ~links[j].created
        /\ links[k].resolves[1] /\ links[k].resolves[2] /\ links[k].primary

(***************************************************************************)
(* Properties of optimize (SpecCFG).                                       *)
(***************************************************************************)
\* the nodes of CFG g that the for loop of optimize would pick, in dict order
candidates(H, g) ==
    {i \in DOMAIN H.cfgs[g].nodes : removable(H, g, H.cfgs[g].nodes[i])}

\* edge e runs from p to s and carries the constraints, effects and metadata of keep
CarriesDataOf(e, p, s, keep) ==
    /\ e.src = p
    /\ e.dst = s
    /\ e.constraints = keep.constraints
    /\ e.effects = keep.effects
    /\ e.metadata = keep.metadata

\* the first removal of an optimize() of CFG g in the current state leaves an
\* edge p -> s with the data of the significant removed edge
SpliceKeepsData(g) ==
    LET H == Heap
        n == H.cfgs[g].nodes[Min(candidates(H, g))]
        edge_in == incoming(H.cfgs[g].edges, n)[1]
        edge_out == outgoing(H.cfgs[g].edges, n)[1]
        keep == IF is_edge_insignificant(edge_in) THEN edge_out ELSE edge_in
        r == optimize_remove(H, g, n)
    IN ~r.raised =>
          \E i \in DOMAIN r.H.cfgs[g].edges :
              CarriesDataOf(r.H.cfgs[g].edges[i], edge_in.src, edge_out.dst, keep)

\* C21: when optimize removes a node n with in-edge p -> n and out-edge
\* n -> s, the graph afterwards has an edge p -> s whose constraints, effects
\* and metadata are those of the significant one of the two removed edges
\* (of the outgoing one when both are insignificant), also when the graph
\* already had another p -> s edge.
C21_SpliceKeepsEdgeData ==
    \A g \in DOMAIN cfgs : candidates(Heap, g) # {} => SpliceKeepsData(g)

\* C22: optimize() returns without error on every CFG built with add_node,
\* connect and merge (cycles and self-loops included), stops exactly when no
\* node qualifies, and returns the number of nodes removed (node count
\* before minus node count after).
C22_OptimizeReturnsRemovedCount ==
    /\ ret.op = "optimize" => ~ret.raised
    /\ \A g \in DOMAIN cfgs :
          LET r == optimize(Heap, g)
          IN /\ ~r.raised
             /\ candidates(r.H, g) = {}
             /\ r.removed_count = Len(cfgs[g].nodes) - Len(r.H.cfgs[g].nodes)

\* node n of CFG g may not be removed: it has effects, metadata, an in- or
\* out-degree other than 1, or two significant adjacent edges
MustStay(H, g, n) ==
    LET es == H.cfgs[g].edges
        ins == {i \in DOMAIN es : es[i].dst = n}
        outs == {i \in DOMAIN es : es[i].src = n}
    IN \/ H.node[n].effects # << >>
       \/ H.node[n].metadata # EmptyMetadata
       \/ Cardinality(ins) # 1
       \/ Cardinality(outs) # 1
       \/ \A i \in ins \cup outs : ~is_edge_insignificant(es[i])

\* the edges of CFG g that do not touch node n, in list order
NotAdjacent(H, g, n) == SelectSeq(H.cfgs[g].edges, LAMBDA e : e.src # n /\ e.dst # n)

\* what the iterations of optimize() on CFG g of heap H change, one by one:
\* the node picked may go, and no other node and no edge away from it changes
RECURSIVE RemovalsJustified(_, _)
RemovalsJustified(H, g) ==
    IF candidates(H, g) = {} THEN TRUE
    ELSE LET n == H.cfgs[g].nodes[Min(candidates(H, g))]
             r == optimize_remove(H, g, n)
             gone == {x \in Range(H.cfgs[g].nodes) : x \notin Range(r.H.cfgs[g].nodes)}
         IN /\ ~MustStay(H, g, n)
            /\ gone \subseteq {n}
            /\ r.H.node = H.node
            /\ \A x \in DOMAIN H.cfgs : x # g => r.H.cfgs[x] = H.cfgs[x]
            /\ gone = {n} =>
                  \/ NotAdjacent(r.H, g, n) = NotAdjacent(H, g, n)
                  \/ \E e \in Range(r.H.cfgs[g].edges) :
                        /\ e.id = H.idc
                        /\ NotAdjacent(r.H, g, n) = Append(NotAdjacent(H, g, n), e)
            /\ gone = {} => r.H.cfgs[g].edges = H.cfgs[g].edges
            /\ ~r.raised => RemovalsJustified(r.H, g)

\* C23: optimize never removes a node that, when it is removed, has effects,
\* non-empty metadata, an in-degree or out-degree other than 1, or two
\* significant adjacent edges; every other node and every edge not adjacent
\* to a removed node is left unchanged.
C23_OnlyInsignificantRemoved ==
    \A g \in DOMAIN cfgs : RemovalsJustified(Heap, g)

(***************************************************************************)
(* Properties of add_node with a subgraph (SpecCFG).                       *)
(***************************************************************************)
\* es has a plain edge from src to dst
HasPlainEdge(es, src, dst) ==
    \E i \in DOMAIN es :
        /\ es[i].src = src
        /\ es[i].dst = dst
        /\ is_edge_insignificant(es[i])

\* what add_node(subgraph = s) on CFG g of heap H leaves, but for the edges of s:
\* the pair is new, the nodes of s are in g, the pair is connected to the
\* boundaries of s, and what g had before is still there
WrapsSubgraph(H, g, s, R) ==
    LET enter == H.idc
        leave == H.idc + 1
    IN /\ enter \notin DOMAIN H.node /\ leave \notin DOMAIN H.node
       /\ {enter, leave} \subseteq Range(R.cfgs[g].nodes)
       /\ Range(H.cfgs[s].nodes) \subseteq Range(R.cfgs[g].nodes)
       /\ HasPlainEdge(R.cfgs[g].edges, enter, H.cfgs[s].begin_node)
       /\ HasPlainEdge(R.cfgs[g].edges, H.cfgs[s].end_node, leave)
       /\ R.cfgs[g].begin_node = H.cfgs[g].begin_node
       /\ R.cfgs[g].end_node = H.cfgs[g].end_node
       /\ SubSeq(R.cfgs[g].nodes, 1, Len(H.cfgs[g].nodes)) = H.cfgs[g].nodes
       /\ SubSeq(R.cfgs[g].edges, 1, Len(H.cfgs[g].edges)) = H.cfgs[g].edges
       /\ \A n \in DOMAIN H.node : R.node[n] = H.node[n]
       /\ s = g =>
             /\ Len(R.cfgs[g].nodes) = Len(H.cfgs[g].nodes) + 2
             /\ Len(R.cfgs[g].edges) = Len(H.cfgs[g].edges) + 2

\* C27 as stated: add_node with a subgraph S returns a pair of new nodes;
\* afterwards every node of S is in the host's node map, every edge of S is
\* in the host's edge list, the host has the edges enter -> S.BEGIN and
\* S.END -> leave, and the host's BEGIN/END handles and all earlier nodes and
\* edges are unchanged; when S is the host nothing is merged but both
\* connecting edges are added.
C27_AddNodeWrapsSubgraph ==
    \A s \in DOMAIN cfgs, md \in NodeMetadatas :
        LET R == add_node_sub(Heap, 1, "body", md, s)
        IN /\ WrapsSubgraph(Heap, 1, s, R)
           /\ Range(cfgs[s].edges) \subseteq Range(R.cfgs[1].edges)

\* C27, amended: an edge of S is in the host's edge list unless the host
\* already had an edge with the same (src, dst, constraints), which stays in
\* its place; the rest as stated.
C27_AddNodeWrapsSubgraphDedup ==
    \A s \in DOMAIN cfgs, md \in NodeMetadatas :
        LET R == add_node_sub(Heap, 1, "body", md, s)
        IN /\ WrapsSubgraph(Heap, 1, s, R)
           /\ \A e \in Range(cfgs[s].edges) :
                 \/ e \in Range(R.cfgs[1].edges)
                 \/ \E e2 \in Range(cfgs[1].edges) : compare(e, e2)
           /\ NoDuplicateEdges(R.cfgs[1].edges)

\* add_node has wrapped a subgraph with an edge into the host, and the host
\* holds all the edges of the subgraph
C27_Witness ==
    /\ ret.op = "add_node_sub"
    /\ ret.g # ret.s
    /\ cfgs[ret.s].edges # << >>
    /\ Range(cfgs[ret.s].edges) \subseteq Range(cfgs[ret.g].edges)
    /\ \E i, j \in DOMAIN cfgs[ret.g].edges :
          /\ cfgs[ret.g].edges[i].dst = cfgs[ret.s].begin_node
          /\ cfgs[ret.g].edges[j].src = cfgs[ret.s].end_node
          /\ cfgs[ret.g].edges[i].src = cfgs[ret.g].edges[j].dst - 1

(***************************************************************************)
(* Properties of the role_in_list lookups (SpecPath).                      *)
(***************************************************************************)
\* the wrapper the last lookup looked the list up in: self, or its parent
ListBase == IF pret.identification.origin = "parent" THEN wr[pret.self].parent ELSE pret.self

\* the raw list the last lookup named: the value of its property in ListBase
NamedList ==
    IF ListBase # 0 /\ IsDict(wr[ListBase].ast_node)
    THEN AstGet(wr[ListBase].ast_node, pret.identification.property) ELSE 0

\* the last lookup was a first/next lookup on a named list property
NamedListLookup ==
    /\ pret.op = "in_list"
    /\ pret.identification.property # "None"
    /\ NamedList > 0
    /\ ast[NamedList].shape = "list"

\* C26: with a named list property P, 'first_in_list' returns the wrapper of
\* element 0 of P (absent if P is empty), 'next_in_list' with a previous
\* wrapper of element i returns the wrapper of element i+1 (absent at the
\* last index or without previous), and neither raises, whatever lookups
\* were made before on the same wrapper.
C26_FirstNextInNamedList ==
    NamedListLookup =>
        LET P == ast[NamedList].l
        IN /\ ~pret.raised
           /\ pret.identification.role_in_list = "first_in_list" =>
                 IF P = << >> THEN pret.res = 0
                 ELSE pret.res # 0 /\ wr[pret.res].ast_node = P[1]
           /\ pret.identification.role_in_list = "next_in_list" =>
                 /\ pret.previous = 0 => pret.res = 0
                 /\ \A i \in DOMAIN P :
                       (pret.previous # 0 /\ wr[pret.previous].ast_node = P[i]) =>
                           IF i = Len(P) THEN pret.res = 0
                           ELSE pret.res # 0 /\ wr[pret.res].ast_node = P[i + 1]

(***************************************************************************)
(* Properties of the previous argument of a path lookup (SpecPath).        *)
(***************************************************************************)
\* self.get('role', {'property_path': path}, previous) in the current state
PathLookup(self, path, previous) ==
    resolve(PathHeap, self, "role", PathIdent(path), previous)

\* C29: a property-path lookup whose origin is not 'previous' depends only on
\* the start wrapper and the path: with any wrapper as previous, or none, it
\* returns the same wrapper (and leaves the same wrappers behind), also for
\* paths with '^' followed by '[next]'.
C29_PathIgnoresPrevious ==
    \A self \in DOMAIN wr, path \in Paths, previous \in DOMAIN wr :
        PathLookup(self, path, previous) = PathLookup(self, path, 0)

\* a path with '^' followed by '[next]' was resolved with a previous wrapper
\* that is not the start wrapper, and returned a wrapper
C29_Witness ==
    /\ pret.op = "path"
    /\ LastPath = <<"^", "[next]">>
    /\ pret.previous # 0
    /\ pret.previous # pret.self
    /\ pret.res # 0

(***************************************************************************)
(* Further properties of the builder (SpecBuild).                          *)
(***************************************************************************)
\* C25: when the resolution of one outgoing transition of a worklist node
\* fails, that transition is logged and skipped: no node or edge is added
\* for it, the worklist goes on, and build returns a CFG.
C25_FailedTransitionSkipped ==
    \A i \in Logged("unresolved") :
        /\ built.status = "returned"
        /\ built.cfg # 0
        /\ \A j \in Logged("worklist") :
              ~(/\ links[j].cfg = links[i].cfg
                /\ links[j].src = links[i].src
                /\ links[j].tr = links[i].tr)

\* the enter nodes of the (enter, leave) pairs the build has made: for the
\* targets of the worklists and for the callees of the call sites
EnterNodes ==
    {links[j].dst : j \in {k \in Logged("worklist") : links[k].created}}
        \cup {links[j].enter : j \in Logged("call")}

\* the leave nodes of the pairs the worklists have made
LeaveNodes == {links[j].dst + 1 : j \in {k \in Logged("worklist") : links[k].created}}

\* no node is expanded twice and no enter node is expanded
ExpandedOnce ==
    /\ \A i, j \in Logged("pop") : links[i].node = links[j].node => i = j
    /\ \A i \in Logged("pop") : links[i].node \notin EnterNodes

\* what the worklists of the last build have expanded: every CFG node at
\* most once, no enter node of an (enter, leave) pair, and, when the build
\* returned, the leave node of every pair a worklist made
ExpandedAtMostOnce ==
    /\ ExpandedOnce
    /\ built.status = "returned" =>
          \A n \in LeaveNodes : \E i \in Logged("pop") : links[i].node = n

\* how many statements the programs of SpecBuildLive have at most
MaxProgLive == 2

\* the builds of SpecBuild on the programs of up to MaxProgLive statements
InitBuildLive ==
    /\ InitBuild
    /\ Len(ast[Program.Body].l) <= MaxProgLive

\* ENABLED <<NextBuild>>_vars: make_cfg_for_ast yields a heap for every program,
\* so a build can be taken whenever the client has builds left
BuildEnabled == MayBuild

\* WF_vars(NextBuild) with its ENABLED written as BuildEnabled: make_cfg_for_ast
\* is synchronous and single-threaded, a build the client calls runs on until
\* it returns or raises
FairBuild == []<>~BuildEnabled \/ []<><<NextBuild>>_vars

SpecBuildLive == InitBuildLive /\ [][NextBuild]_vars /\ FairBuild

RegisteredBefore == {built.func0[i].name : i \in DOMAIN built.func0}

\* the call link of the last build for the call site at AST node site
LinkedTo(site, name) ==
    \E i \in Logged("call"), k \in DOMAIN built.func0 :
        /\ links[i].site = site
        /\ links[i].callee = name
        /\ built.func0[k].name = name
        /\ links[i].func_cfg = built.func0[k].cfg

\* C30: the registry of a builder only grows: a second top-level build on
\* the same builder keeps every registration of the first, fails with the
\* duplicate-definition failure when its program defines a registered name,
\* and links its call sites to the functions the first build registered.
C30_RegistryKeptBetweenBuilds ==
    built.same =>
        /\ Len(func_cfgs) >= Len(built.func0)
        /\ SubSeq(func_cfgs, 1, Len(built.func0)) = built.func0
        /\ (\E d \in DOMAIN DefinitionsOf(Program2) :
               extract_function_name_from_node(DefinitionsOf(Program2)[d])
                   \in RegisteredBefore)
              => /\ built.status = "raised"
                 /\ built.exc = "NotImplementedError"
        /\ \A i \in Logged("call") : links[i].callee \in RegisteredBefore =>
              \E k \in DOMAIN built.func0 :
                  /\ built.func0[k].name = links[i].callee
                  /\ built.func0[k].cfg = links[i].func_cfg
        /\ ("g" \in RegisteredBefore /\ ast[Program2.Body].l = <<21>>) =>
              /\ built.status = "returned"
              /\ LinkedTo(21, "g")
        /\ ("g" \in RegisteredBefore /\ "f" \notin RegisteredBefore
               /\ ast[Program2.Body].l = <<27, 25>>) => LinkedTo(28, "g")

\* the second build on a builder that had registered g built the body of a
\* new function f, linked the call of g in it to the CFG registered by the
\* first build, and then failed at a second definition of g
C30_Witness ==
    /\ built.same
    /\ built.exc = "NotImplementedError"
    /\ "g" \in RegisteredBefore
    /\ LinkedTo(28, "g")
    /\ Len(func_cfgs) > Len(built.func0)

\* call site a is a call inside call site b (in its arguments)
NestedIn(a, b) == \E k \in DOMAIN search_dfs_all(ast_children(b), "function_call") :
                      search_dfs_all(ast_children(b), "function_call")[k] = a

\* in CFG g the chain goes from the call CFG of link i straight to that of link j
Follows(g, i, j) ==
    \E k \in DOMAIN cfgs[g].edges :
        /\ cfgs[g].edges[k].src = cfgs[links[i].call_cfg].end_node
        /\ cfgs[g].edges[k].dst = cfgs[links[j].call_cfg].begin_node

\* C24: in the chain BEGIN -> call1 -> call2 -> ... -> END emitted for an
\* atomic or unmatched AST node the calls are in evaluation order: a call
\* nested in the arguments of another call comes before the enclosing call.
C24_NestedCallBeforeEnclosing ==
    \A i, j \in Logged("call") :
        NestedIn(links[i].site, links[j].site) =>
            /\ \A g \in DOMAIN cfgs : ~Follows(g, j, i)
            /\ built.status = "returned" => \E g \in DOMAIN cfgs : Follows(g, i, j)

====
